---------------------------- MODULE Spec2Model ----------------------------
(***************************************************************************)
(* Model of the presentation layer of ai-hedge-fund:                       *)
(*   src/utils/language.py  - Language, combine_translations and the       *)
(*                            translate_* lookups;                         *)
(*   src/utils/display.py   - print_trading_output.                        *)
(*                                                                         *)
(* Text is a sequence of characters, each character a one-element string;  *)
(* a character outside ASCII is written by its code point ("u672a").      *)
(* A Python dict is a sequence of <<key, value>> pairs in insertion order. *)
(* A call returns [exc |-> "none", val |-> v] or raises [exc |-> name].    *)
(***************************************************************************)
EXTENDS Integers, Sequences, FiniteSets, TLC

VARIABLES op, args, ret

vars == <<op, args, ret>>

(***************************************************************************)
(* Bounds of the input sets.                                               *)
(***************************************************************************)
\* longest free-form language string over LangAlphabet
MaxLangLen == 2
\* longest text over TextAlphabet handed to combine_translations
MaxTextLen == 2

(***************************************************************************)
(* Python values and builtins.                                             *)
(***************************************************************************)
None == [tag |-> "None"]

Str(s) == [tag |-> "str", val |-> s]

Ok(v) == [exc |-> "none", val |-> v]

Raise(e) == [exc |-> e, val |-> <<>>]

\* the strings over alphabet A of length at most n
StringsUpTo(A, n) == UNION {[1..k -> A] : k \in 0..n}

LowerLetters == <<"a","b","c","d","e","f","g","h","i","j","k","l","m",
                  "n","o","p","q","r","s","t","u","v","w","x","y","z">>

UpperLetters == <<"A","B","C","D","E","F","G","H","I","J","K","L","M",
                  "N","O","P","Q","R","S","T","U","V","W","X","Y","Z">>

IsLower(c) == \E i \in 1..26 : LowerLetters[i] = c

IsUpper(c) == \E i \in 1..26 : UpperLetters[i] = c

IsCased(c) == IsLower(c) \/ IsUpper(c)

chr_lower(c) == IF IsUpper(c) THEN LowerLetters[CHOOSE i \in 1..26 : UpperLetters[i] = c] ELSE c

chr_upper(c) == IF IsLower(c) THEN UpperLetters[CHOOSE i \in 1..26 : LowerLetters[i] = c] ELSE c

\* str.lower()
str_lower(s) == [i \in 1..Len(s) |-> chr_lower(s[i])]

\* str.upper()
str_upper(s) == [i \in 1..Len(s) |-> chr_upper(s[i])]

\* str.title(): a cased character is upper-cased after an uncased one (or at
\* the start) and lower-cased after a cased one
str_title(s) ==
    [i \in 1..Len(s) |->
        IF i > 1 /\ IsCased(s[i-1]) THEN chr_lower(s[i]) ELSE chr_upper(s[i])]

\* the characters str.strip() and str.split() treat as white space
Whitespace == {" ", "\t", "\n", "\r", "\f"}

\* str.strip()
str_strip(s) ==
    LET keep == {i \in 1..Len(s) : s[i] \notin Whitespace}
    IN  IF keep = {} THEN <<>>
        ELSE SubSeq(s, CHOOSE i \in keep : \A j \in keep : i <= j,
                       CHOOSE i \in keep : \A j \in keep : j <= i)

\* str.split() without arguments: the maximal runs of non-white-space
str_split(s) ==
    LET starts == {i \in 1..Len(s) :
                     s[i] \notin Whitespace /\ (i = 1 \/ s[i-1] \in Whitespace)}
        EndOf(i) == CHOOSE j \in i..Len(s) :
                      /\ \A k \in i..j : s[k] \notin Whitespace
                      /\ (j = Len(s) \/ s[j+1] \in Whitespace)
        Nth(n) == CHOOSE i \in starts : Cardinality({j \in starts : j < i}) = n - 1
    IN  [n \in 1..Cardinality(starts) |-> SubSeq(s, Nth(n), EndOf(Nth(n)))]

RECURSIVE str_replace(_, _, _)
\* str.replace(old, new) for a non-empty old: every non-overlapping
\* occurrence, scanning from the left
str_replace(s, old, new) ==
    IF Len(s) < Len(old) THEN s
    ELSE IF SubSeq(s, 1, Len(old)) = old
         THEN new \o str_replace(SubSeq(s, Len(old) + 1, Len(s)), old, new)
         ELSE <<s[1]>> \o str_replace(Tail(s), old, new)

\* dict key test and dict.get(key, default)
dict_has(d, k) == \E i \in 1..Len(d) : d[i][1] = k

dict_get(d, k, default) ==
    IF dict_has(d, k) THEN d[CHOOSE i \in 1..Len(d) : d[i][1] = k][2] ELSE default

RECURSIVE str_format(_, _)
\* str.format(**kwargs) on a template whose only replacement fields are
\* named ones, "{name}": a name that kwargs lacks raises KeyError
str_format(t, kwargs) ==
    IF t = <<>> THEN Ok(<<>>)
    ELSE IF t[1] = "{"
         THEN LET close == CHOOSE j \in 2..Len(t) :
                             t[j] = "}" /\ \A k \in 2..(j-1) : t[k] # "}"
                  name == SubSeq(t, 2, close - 1)
                  rest == str_format(SubSeq(t, close + 1, Len(t)), kwargs)
              IN  IF ~dict_has(kwargs, name) THEN Raise("KeyError")
                  ELSE IF rest.exc # "none" THEN rest
                  ELSE Ok(dict_get(kwargs, name, <<>>) \o rest.val)
         ELSE LET rest == str_format(Tail(t), kwargs)
              IN  IF rest.exc # "none" THEN rest ELSE Ok(<<t[1]>> \o rest.val)

(***************************************************************************)
(* language.py                                                             *)
(***************************************************************************)
\* class Language(str, Enum): the members and their values
Language == <<[name |-> "ZH",   value |-> <<"z","h">>],
              [name |-> "EN",   value |-> <<"e","n">>],
              [name |-> "BOTH", value |-> <<"b","o","t","h">>]>>

Languages == {Language[i].name : i \in 1..Len(Language)}

DEFAULT_LANGUAGE == "ZH"

\* Language(value): the member with that value, or ValueError
Language_call(value) ==
    IF \E i \in 1..Len(Language) : Language[i].value = value
    THEN Ok(Language[CHOOSE i \in 1..Len(Language) : Language[i].value = value].name)
    ELSE Raise("ValueError")

\* a mutant of from_value: the value is looked up without lower-casing it
from_value_CaseSensitive(value) ==
    IF value = None \/ value.val = <<>> THEN Ok("ZH")
    ELSE LET made == Language_call(value.val)
         IN  IF made.exc = "ValueError" THEN Ok("ZH") ELSE made

\* Language.from_value; value is None or Str(s)
from_value(value) ==
    IF value = None \/ value.val = <<>> THEN Ok("ZH")
    ELSE LET made == Language_call(str_lower(value.val))
         IN  IF made.exc = "ValueError" THEN Ok("ZH") ELSE made

\* the default joiner of combine_translations
DefaultJoiner == <<" ", "/", " ">>

\* a or b on strings
str_or(a, b) == IF a # <<>> THEN a ELSE b

\* a mutant of combine_translations_joiner: BOTH joins the texts as they
\* are, without stripping them
combine_translations_NoStrip(zh_text, en_text, language, joiner) ==
    IF language = "ZH" THEN str_or(zh_text, en_text)
    ELSE IF language = "EN" THEN str_or(en_text, zh_text)
    ELSE IF zh_text # <<>> /\ en_text # <<>> /\ en_text # zh_text
         THEN zh_text \o joiner \o en_text
         ELSE IF zh_text # <<>> THEN zh_text ELSE en_text

\* a mutant of combine_translations_joiner: BOTH compares the stripped texts
\* without regard to letter case
combine_translations_CaseFold(zh_text, en_text, language, joiner) ==
    IF language = "ZH" THEN str_or(zh_text, en_text)
    ELSE IF language = "EN" THEN str_or(en_text, zh_text)
    ELSE LET zh == str_strip(zh_text)
             en == str_strip(en_text)
             parts == (IF zh # <<>> THEN <<zh>> ELSE <<>>)
                      \o (IF en # <<>> /\ str_lower(en) # str_lower(zh) THEN <<en>> ELSE <<>>)
         IN  IF parts = <<>> THEN str_or(en_text, zh_text)
             ELSE IF Len(parts) = 1 THEN parts[1]
             ELSE parts[1] \o joiner \o parts[2]

\* combine_translations(zh_text, en_text, language, joiner)
combine_translations_joiner(zh_text, en_text, language, joiner) ==
    IF language = "ZH" THEN str_or(zh_text, en_text)
    ELSE IF language = "EN" THEN str_or(en_text, zh_text)
    ELSE LET zh == str_strip(zh_text)
             en == str_strip(en_text)
             parts == (IF zh # <<>> THEN <<zh>> ELSE <<>>)
                      \o (IF en # <<>> /\ en # zh THEN <<en>> ELSE <<>>)
         IN  IF parts = <<>> THEN str_or(en_text, zh_text)
             ELSE IF Len(parts) = 1 THEN parts[1]
             ELSE parts[1] \o joiner \o parts[2]

\* combine_translations with the default joiner
combine_translations(zh_text, en_text, language) ==
    combine_translations_joiner(zh_text, en_text, language, DefaultJoiner)

\* TRANSLATIONS: the entries of the keys print_trading_output,
\* print_backtest_results and format_backtest_row use, and three entries with
\* surrounding line breaks and with several fields
TRANSLATIONS ==
    <<
    <<"cli.interrupt",
      [zh |-> <<"\n","\n","u68c0","u6d4b","u5230","u4e2d","u65ad","uff0c","u7a0b","u5e8f","u9000","u51fa",
              "u2026","u2026">>,
       en |-> <<"\n","\n","I","n","t","e","r","r","u","p","t"," ","r","e","c","e","i","v","e","d","."," ","E",
              "x","i","t","i","n","g",".",".",".">>]>>,
    <<"cli.selected_model",
      [zh |-> <<"u5df2","u9009","u62e9"," ","{","p","r","o","v","i","d","e","r","}"," ","u6a21","u578b",
              "uff1a","{","m","o","d","e","l","}">>,
       en |-> <<"S","e","l","e","c","t","e","d"," ","{","p","r","o","v","i","d","e","r","}"," ","m","o","d",
              "e","l",":"," ","{","m","o","d","e","l","}">>]>>,
    <<"cli.selected_model_generic",
      [zh |-> <<"\n","u5df2","u9009","u62e9","u6a21","u578b","uff1a","{","m","o","d","e","l","}","\n">>,
       en |-> <<"\n","S","e","l","e","c","t","e","d"," ","m","o","d","e","l",":"," ","{","m","o","d","e","l",
              "}","\n">>]>>,
    <<"display.analysis_heading",
      [zh |-> <<"u5206","u6790","uff1a","{","t","i","c","k","e","r","}">>,
       en |-> <<"A","n","a","l","y","s","i","s",":"," ","{","t","i","c","k","e","r","}">>]>>,
    <<"display.agent_analysis_header",
      [zh |-> <<"u4ee3","u7406","u5206","u6790","uff1a","{","t","i","c","k","e","r","}">>,
       en |-> <<"A","g","e","n","t"," ","A","n","a","l","y","s","i","s",":"," ","{","t","i","c","k","e","r",
              "}">>]>>,
    <<"display.trading_decision_header",
      [zh |-> <<"u4ea4","u6613","u51b3","u7b56","uff1a","{","t","i","c","k","e","r","}">>,
       en |-> <<"T","r","a","d","i","n","g"," ","D","e","c","i","s","i","o","n",":"," ","{","t","i","c","k",
              "e","r","}">>]>>,
    <<"display.portfolio_summary_header",
      [zh |-> <<"u6295","u8d44","u7ec4","u5408","u6c47","u603b">>,
       en |-> <<"P","o","r","t","f","o","l","i","o"," ","S","u","m","m","a","r","y">>]>>,
    <<"display.portfolio_strategy_header",
      [zh |-> <<"u7ec4","u5408","u7b56","u7565","u8bf4","u660e">>,
       en |-> <<"P","o","r","t","f","o","l","i","o"," ","S","t","r","a","t","e","g","y">>]>>,
    <<"display.no_decisions",
      [zh |-> <<"u672a","u751f","u6210","u4efb","u4f55","u4ea4","u6613","u51b3","u7b56">>,
       en |-> <<"N","o"," ","t","r","a","d","i","n","g"," ","d","e","c","i","s","i","o","n","s"," ","a","v",
              "a","i","l","a","b","l","e">>]>>,
    <<"display.table.agent",
      [zh |-> <<"u4ee3","u7406">>,
       en |-> <<"A","g","e","n","t">>]>>,
    <<"display.table.signal",
      [zh |-> <<"u4fe1","u53f7">>,
       en |-> <<"S","i","g","n","a","l">>]>>,
    <<"display.table.confidence",
      [zh |-> <<"u7f6e","u4fe1","u5ea6">>,
       en |-> <<"C","o","n","f","i","d","e","n","c","e">>]>>,
    <<"display.table.reasoning",
      [zh |-> <<"u63a8","u7406">>,
       en |-> <<"R","e","a","s","o","n","i","n","g">>]>>,
    <<"display.table.action",
      [zh |-> <<"u64cd","u4f5c">>,
       en |-> <<"A","c","t","i","o","n">>]>>,
    <<"display.table.quantity",
      [zh |-> <<"u6570","u91cf">>,
       en |-> <<"Q","u","a","n","t","i","t","y">>]>>,
    <<"display.table.ticker",
      [zh |-> <<"u6807","u7684">>,
       en |-> <<"T","i","c","k","e","r">>]>>,
    <<"display.table.portfolio_confidence",
      [zh |-> <<"u7f6e","u4fe1","u5ea6">>,
       en |-> <<"C","o","n","f","i","d","e","n","c","e">>]>>,
    <<"display.portfolio_strategy_text",
      [zh |-> <<"{","t","e","x","t","}">>,
       en |-> <<"{","t","e","x","t","}">>]>>,
    <<"backtest.table.summary_heading",
      [zh |-> <<"u6295","u8d44","u7ec4","u5408","u6c47","u603b">>,
       en |-> <<"P","O","R","T","F","O","L","I","O"," ","S","U","M","M","A","R","Y">>]>>,
    <<"backtest.table.cash_balance",
      [zh |-> <<"u73b0","u91d1","u4f59","u989d">>,
       en |-> <<"C","a","s","h"," ","B","a","l","a","n","c","e">>]>>,
    <<"backtest.table.position_value",
      [zh |-> <<"u603b","u6301","u4ed3","u5e02","u503c">>,
       en |-> <<"T","o","t","a","l"," ","P","o","s","i","t","i","o","n"," ","V","a","l","u","e">>]>>,
    <<"backtest.table.total_value",
      [zh |-> <<"u8d44","u4ea7","u603b","u503c">>,
       en |-> <<"T","o","t","a","l"," ","V","a","l","u","e">>]>>,
    <<"backtest.table.return",
      [zh |-> <<"u6536","u76ca","u7387">>,
       en |-> <<"R","e","t","u","r","n">>]>>,
    <<"backtest.table.sharpe_ratio",
      [zh |-> <<"u590f","u666e","u6bd4","u7387">>,
       en |-> <<"S","h","a","r","p","e"," ","R","a","t","i","o">>]>>,
    <<"backtest.table.sortino_ratio",
      [zh |-> <<"u7d22","u63d0","u8bfa","u6bd4","u7387">>,
       en |-> <<"S","o","r","t","i","n","o"," ","R","a","t","i","o">>]>>,
    <<"backtest.table.max_drawdown",
      [zh |-> <<"u6700","u5927","u56de","u64a4">>,
       en |-> <<"M","a","x"," ","D","r","a","w","d","o","w","n">>]>>,
    <<"backtest.table.date",
      [zh |-> <<"u65e5","u671f">>,
       en |-> <<"D","a","t","e">>]>>,
    <<"backtest.table.ticker",
      [zh |-> <<"u6807","u7684">>,
       en |-> <<"T","i","c","k","e","r">>]>>,
    <<"backtest.table.action",
      [zh |-> <<"u64cd","u4f5c">>,
       en |-> <<"A","c","t","i","o","n">>]>>,
    <<"backtest.table.quantity",
      [zh |-> <<"u6570","u91cf">>,
       en |-> <<"Q","u","a","n","t","i","t","y">>]>>,
    <<"backtest.table.price",
      [zh |-> <<"u4ef7","u683c">>,
       en |-> <<"P","r","i","c","e">>]>>,
    <<"backtest.table.long_shares",
      [zh |-> <<"u591a","u5934","u6301","u80a1">>,
       en |-> <<"L","o","n","g"," ","S","h","a","r","e","s">>]>>,
    <<"backtest.table.short_shares",
      [zh |-> <<"u7a7a","u5934","u6301","u80a1">>,
       en |-> <<"S","h","o","r","t"," ","S","h","a","r","e","s">>]>>,
    <<"backtest.table.position_value_column",
      [zh |-> <<"u51c0","u6301","u4ed3","u4ef7","u503c">>,
       en |-> <<"P","o","s","i","t","i","o","n"," ","V","a","l","u","e">>]>>,
    <<"backtest.table.bullish",
      [zh |-> <<"u770b","u591a">>,
       en |-> <<"B","u","l","l","i","s","h">>]>>,
    <<"backtest.table.bearish",
      [zh |-> <<"u770b","u7a7a">>,
       en |-> <<"B","e","a","r","i","s","h">>]>>,
    <<"backtest.table.neutral",
      [zh |-> <<"u4e2d","u6027">>,
       en |-> <<"N","e","u","t","r","a","l">>]>>
    >>

\* STATUS_TRANSLATIONS: four of its entries
STATUS_TRANSLATIONS ==
    <<
    <<<<"A","n","a","l","y","z","i","n","g"," ","v","a","l","u","e">>,
      <<"u6b63","u5728","u5206","u6790","u4ef7","u503c">>>>,
    <<<<"C","o","m","b","i","n","i","n","g"," ","s","i","g","n","a","l","s">>,
      <<"u6b63","u5728","u7efc","u5408","u5206","u6790","u5e08","u4fe1","u53f7">>>>,
    <<<<"D","o","n","e">>,
      <<"u5b8c","u6210">>>>,
    <<<<"F","e","t","c","h","i","n","g"," ","m","a","r","k","e","t"," ","c","a","p">>,
      <<"u6b63","u5728","u83b7","u53d6","u5e02","u503c">>>>
    >>

\* AGENT_NAME_TRANSLATIONS: four of its entries
AGENT_NAME_TRANSLATIONS ==
    <<
    <<<<"b","e","n","_","g","r","a","h","a","m">>,
      <<"u672c","u00b7","u683c","u96f7","u5384","u59c6">>>>,
    <<<<"w","a","r","r","e","n","_","b","u","f","f","e","t","t">>,
      <<"u6c83","u4f26","u00b7","u5df4","u83f2","u7279">>>>,
    <<<<"t","e","c","h","n","i","c","a","l","_","a","n","a","l","y","s","t">>,
      <<"u6280","u672f","u5206","u6790","u5e08">>>>,
    <<<<"r","i","s","k","_","m","a","n","a","g","e","m","e","n","t">>,
      <<"u98ce","u9669","u7ba1","u7406">>>>
    >>

SIGNAL_TRANSLATIONS ==
    <<
    <<<<"B","U","L","L","I","S","H">>,
      <<"u770b","u591a">>>>,
    <<<<"B","E","A","R","I","S","H">>,
      <<"u770b","u7a7a">>>>,
    <<<<"N","E","U","T","R","A","L">>,
      <<"u4e2d","u6027">>>>
    >>

ACTION_TRANSLATIONS ==
    <<
    <<<<"B","U","Y">>,
      <<"u4e70","u5165">>>>,
    <<<<"S","E","L","L">>,
      <<"u5356","u51fa">>>>,
    <<<<"H","O","L","D">>,
      <<"u89c2","u671b">>>>,
    <<<<"S","H","O","R","T">>,
      <<"u505a","u7a7a">>>>,
    <<<<"C","O","V","E","R">>,
      <<"u56de","u8865">>>>
    >>

\* a mutant of translate_text: a template whose field is not supplied is
\* returned as it is instead of raising
translate_text_Swallow(key, language, fallback, kwargs) ==
    LET base == IF fallback = None THEN <<>> ELSE fallback.val
    IN  IF ~dict_has(TRANSLATIONS, key)
        THEN Ok(combine_translations(base, base, language))
        ELSE LET translations == dict_get(TRANSLATIONS, key, None)
                 formatted_zh == str_format(translations.zh, kwargs)
                 formatted_en == str_format(translations.en, kwargs)
                 zh == IF formatted_zh.exc # "none" THEN translations.zh ELSE formatted_zh.val
                 en == IF formatted_en.exc # "none" THEN translations.en ELSE formatted_en.val
             IN  Ok(combine_translations(zh, en, language))

\* a mutant of translate_text: the fallback of an absent key is formatted too
translate_text_FormatFallback(key, language, fallback, kwargs) ==
    LET base == IF fallback = None THEN <<>> ELSE fallback.val
        translations == dict_get(TRANSLATIONS, key, [zh |-> base, en |-> base])
        formatted_zh == str_format(translations.zh, kwargs)
        formatted_en == str_format(translations.en, kwargs)
    IN  IF formatted_zh.exc # "none" THEN formatted_zh
        ELSE IF formatted_en.exc # "none" THEN formatted_en
        ELSE Ok(combine_translations(formatted_zh.val, formatted_en.val, language))

\* translate_text(key, language, fallback=None, **kwargs); fallback is None
\* or Str(s), key a table key or any other string
translate_text(key, language, fallback, kwargs) ==
    LET base == IF fallback = None THEN <<>> ELSE fallback.val
    IN  IF ~dict_has(TRANSLATIONS, key)
        THEN Ok(combine_translations(base, base, language))
        ELSE LET translations == dict_get(TRANSLATIONS, key, None)
                 formatted_zh == str_format(translations.zh, kwargs)
                 formatted_en == str_format(translations.en, kwargs)
             IN  IF formatted_zh.exc # "none" THEN formatted_zh
                 ELSE IF formatted_en.exc # "none" THEN formatted_en
                 ELSE Ok(combine_translations(formatted_zh.val, formatted_en.val, language))

\* translate_status(status, language)
translate_status(status, language) ==
    IF language = "EN" THEN status
    ELSE LET zh == dict_get(STATUS_TRANSLATIONS, status, status)
         IN  IF language = "ZH" THEN zh
             ELSE combine_translations(zh, status, "BOTH")

\* translate_agent_name(agent_key, language)
translate_agent_name(agent_key, language) ==
    LET base == str_title(str_replace(agent_key, <<"_">>, <<" ">>))
        zh == dict_get(AGENT_NAME_TRANSLATIONS, agent_key, base)
    IN  combine_translations(zh, base, language)

\* a mutant of translate_signal: an unknown signal is returned as typed
translate_signal_NoUpper(signal, language) ==
    LET zh == dict_get(SIGNAL_TRANSLATIONS, str_upper(signal), signal)
    IN  combine_translations(zh, signal, language)

\* translate_signal(signal, language)
translate_signal(signal, language) ==
    LET signal_upper == str_upper(signal)
        zh == dict_get(SIGNAL_TRANSLATIONS, signal_upper, signal_upper)
    IN  combine_translations(zh, signal_upper, language)

\* translate_action(action, language)
translate_action(action, language) ==
    LET action_upper == str_upper(action)
        zh == dict_get(ACTION_TRANSLATIONS, action_upper, action_upper)
    IN  combine_translations(zh, action_upper, language)

(***************************************************************************)
(* Inputs of the language.py calls.                                        *)
(***************************************************************************)
LangAlphabet == {"z", "h", "Z", "H", "e", "n", "E", "N", "f", "r", " "}

\* None, the empty string, short free-form strings, spellings of "both"
LanguageInputs ==
    {None}
    \cup {Str(s) : s \in StringsUpTo(LangAlphabet, MaxLangLen)}
    \cup {Str(s) : s \in {t \in [1..4 -> {"b","B","o","O","t","T","h","H"}] :
                            str_lower(t) = <<"b","o","t","h">>}}
    \cup {Str(<<"b","o","t">>), Str(<<"b","o","t","h"," ">>), Str(<<"z","h","\n">>)}

TextAlphabet == {"a", "A", " "}

CombineTexts ==
    StringsUpTo(TextAlphabet, MaxTextLen)
    \cup {<<"\n","a">>, <<"a","\n">>, <<"\t">>, <<"b"," ","c">>, <<" ","a"," ">>}

Joiners == {DefaultJoiner, <<"|">>}

TextKeys == {TRANSLATIONS[i][1] : i \in 1..Len(TRANSLATIONS)} \cup {"missing.key"}

Fallbacks ==
    {None, Str(<<>>), Str(<<" ">>), Str(<<"A","g","e","n","t">>),
     Str(<<" ","A","g","e","n","t","\n">>), Str(<<"H","i"," ","{","n","a","m","e","}">>)}

Kwargs ==
    {<<>>,
     << <<<<"t","i","c","k","e","r">>, <<"A","A","P","L">>>> >>,
     << <<<<"t","i","c","k","e","r">>, <<" ","A"," ">>>> >>,
     << <<<<"t","e","x","t">>, <<"x"," ","y">>>> >>,
     << <<<<"t","e","x","t">>, <<" ","x","\n">>>> >>,
     << <<<<"t","e","x","t">>, <<>>>> >>,
     << <<<<"t","e","x","t">>, <<" ">>>> >>,
     << <<<<"m","o","d","e","l">>, <<"m">>>> >>,
     << <<<<"p","r","o","v","i","d","e","r">>, <<"p">>>>, <<<<"m","o","d","e","l">>, <<"m">>>> >>,
     << <<<<"n","a","m","e">>, <<"B","o","b">>>> >>}

StatusInputs ==
    {STATUS_TRANSLATIONS[i][1] : i \in 1..Len(STATUS_TRANSLATIONS)}
    \cup {<<>>, <<" ">>, <<"I","d","l","e">>, <<"d","o","n","e">>,
          <<"D","o","n","e"," ">>, <<"\n","I","d","l","e">>}

AgentKeyInputs ==
    {AGENT_NAME_TRANSLATIONS[i][1] : i \in 1..Len(AGENT_NAME_TRANSLATIONS)}
    \cup {<<>>, <<"f","o","o">>, <<"f","o","o","_">>, <<"_","x">>, <<"_">>,
          <<"m","y","_","b","O","T">>, <<"b","2","b">>,
          <<"W","a","r","r","e","n","_","b","u","f","f","e","t","t">>}

SignalInputs ==
    {SIGNAL_TRANSLATIONS[i][1] : i \in 1..Len(SIGNAL_TRANSLATIONS)}
    \cup {<<>>, <<"b","u","l","l","i","s","h">>, <<"B","e","a","r","i","s","h">>,
          <<"s","t","r","o","n","g">>, <<" ","u","p">>, <<"u","p"," ">>, <<" ">>}

ActionInputs ==
    {ACTION_TRANSLATIONS[i][1] : i \in 1..Len(ACTION_TRANSLATIONS)}
    \cup {<<>>, <<"b","u","y">>, <<"H","o","l","d">>, <<"w","a","i","t">>,
          <<"w","a","i","t","\n">>, <<" ","W","A","I","T">>, <<"\t">>}

(***************************************************************************)
(* The calls of language.py.  The functions keep no state between calls:  *)
(* a call is made from the idle state "start", and Return goes back to it. *)
(***************************************************************************)
Idle == op = "start"

Init ==
    /\ op = "start"
    /\ args = <<>>
    /\ ret = Ok(<<>>)

Call_from_value ==
    \E value \in LanguageInputs :
        /\ Idle
        /\ op' = "from_value"
        /\ args' = [value |-> value]
        /\ ret' = from_value(value)

Call_combine_translations ==
    \E zh_text \in CombineTexts, en_text \in CombineTexts,
       language \in Languages, joiner \in Joiners :
        /\ Idle
        /\ op' = "combine_translations"
        /\ args' = [zh_text |-> zh_text, en_text |-> en_text,
                    language |-> language, joiner |-> joiner]
        /\ ret' = Ok(combine_translations_joiner(zh_text, en_text, language, joiner))

Call_translate_text ==
    \E key \in TextKeys, language \in Languages,
       fallback \in Fallbacks, kwargs \in Kwargs :
        /\ Idle
        /\ op' = "translate_text"
        /\ args' = [key |-> key, language |-> language,
                    fallback |-> fallback, kwargs |-> kwargs]
        /\ ret' = translate_text(key, language, fallback, kwargs)

Call_translate_status ==
    \E status \in StatusInputs, language \in Languages :
        /\ Idle
        /\ op' = "translate_status"
        /\ args' = [text |-> status, language |-> language]
        /\ ret' = Ok(translate_status(status, language))

Call_translate_agent_name ==
    \E agent_key \in AgentKeyInputs, language \in Languages :
        /\ Idle
        /\ op' = "translate_agent_name"
        /\ args' = [text |-> agent_key, language |-> language]
        /\ ret' = Ok(translate_agent_name(agent_key, language))

Call_translate_signal ==
    \E signal \in SignalInputs, language \in Languages :
        /\ Idle
        /\ op' = "translate_signal"
        /\ args' = [text |-> signal, language |-> language]
        /\ ret' = Ok(translate_signal(signal, language))

Call_translate_action ==
    \E action \in ActionInputs, language \in Languages :
        /\ Idle
        /\ op' = "translate_action"
        /\ args' = [text |-> action, language |-> language]
        /\ ret' = Ok(translate_action(action, language))

Return ==
    /\ ~Idle
    /\ op' = "start"
    /\ args' = <<>>
    /\ ret' = Ok(<<>>)

Next ==
    \/ Call_from_value
    \/ Call_combine_translations
    \/ Call_translate_text
    \/ Call_translate_status
    \/ Call_translate_agent_name
    \/ Call_translate_signal
    \/ Call_translate_action
    \/ Return

Spec == Init /\ [][Next]_vars

(***************************************************************************)
(* Properties of language.py, checked under Spec.                          *)
(***************************************************************************)
\* s spells the lower-case word w in some letter case
IsCaseVariant(s, w) ==
    Len(s) = Len(w) /\ \A i \in 1..Len(w) : s[i] \in {w[i], chr_upper(w[i])}

\* C1: Language.from_value never raises and returns ZH, EN or BOTH: "zh",
\* "en" or "both" in any letter case gives that member, and every other
\* input (another string, the empty string, None) gives ZH.
C1_FromValueTotal ==
    op = "from_value" =>
        LET v == args.value
            Spells(w) == v # None /\ IsCaseVariant(v.val, w)
        IN  /\ ret.exc = "none"
            /\ ret.val \in {"ZH", "EN", "BOTH"}
            /\ Spells(<<"z","h">>) => ret.val = "ZH"
            /\ Spells(<<"e","n">>) => ret.val = "EN"
            /\ Spells(<<"b","o","t","h">>) => ret.val = "BOTH"
            /\ ~(Spells(<<"e","n">>) \/ Spells(<<"b","o","t","h">>)) => ret.val = "ZH"

\* C1 witness: "En" was resolved to EN
C1_Witness ==
    op = "from_value" /\ args.value = Str(<<"E","n">>) /\ ret = Ok("EN")

\* the table entry of the key of a translate_text call, and its two texts
\* formatted with the call's substitutions
TextEntry == dict_get(TRANSLATIONS, args.key, None)

FormattedZh == str_format(TextEntry.zh, args.kwargs)

FormattedEn == str_format(TextEntry.en, args.kwargs)

KeyPresentAndSupplied ==
    /\ op = "translate_text"
    /\ dict_has(TRANSLATIONS, args.key)
    /\ FormattedZh.exc = "none"
    /\ FormattedEn.exc = "none"

\* C2 as stated: for a key of TRANSLATIONS with its substitutions supplied,
\* translate_text returns the formatted zh text for ZH, the formatted en text
\* for EN, and for BOTH the two joined by " / ", or the text once when the
\* two are equal.
C2_Original ==
    KeyPresentAndSupplied =>
        LET zh == FormattedZh.val
            en == FormattedEn.val
        IN  /\ ret.exc = "none"
            /\ args.language = "ZH" => ret.val = zh
            /\ args.language = "EN" => ret.val = en
            /\ args.language = "BOTH" =>
                   ret.val = IF zh = en THEN zh ELSE zh \o DefaultJoiner \o en

\* C2 amended: as C2, but for BOTH each formatted text is first stripped of
\* its leading and trailing white space: the stripped texts are joined by
\* " / ", and when they are equal the stripped text is returned once (the
\* unstripped text when it is nothing but white space).
C2_Amended ==
    KeyPresentAndSupplied =>
        LET zh == FormattedZh.val
            en == FormattedEn.val
            z == str_strip(zh)
            e == str_strip(en)
        IN  /\ ret.exc = "none"
            /\ args.language = "ZH" => ret.val = zh
            /\ args.language = "EN" => ret.val = en
            /\ args.language = "BOTH" =>
                   ret.val = IF z = e THEN (IF z = <<>> THEN zh ELSE z)
                             ELSE z \o DefaultJoiner \o e

\* C2 witness: a BOTH lookup of cli.interrupt, whose texts begin with two
\* line breaks, returned the stripped texts joined
C2_Witness ==
    /\ KeyPresentAndSupplied
    /\ args.key = "cli.interrupt"
    /\ args.language = "BOTH"
    /\ ret.val = str_strip(TextEntry.zh) \o DefaultJoiner \o str_strip(TextEntry.en)
    /\ ret.val # TextEntry.zh \o DefaultJoiner \o TextEntry.en

CombineBoth == op = "combine_translations" /\ args.language = "BOTH"

Fields(t) ==
    {SubSeq(t, i + 1, j - 1) : <<i, j>> \in
        {q \in (1..Len(t)) \X (1..Len(t)) :
            /\ t[q[1]] = "{"
            /\ q[1] < q[2]
            /\ t[q[2]] = "}"
            /\ \A k \in (q[1] + 1)..(q[2] - 1) : t[k] # "}"}}

Supplied == {args.kwargs[i][1] : i \in 1..Len(args.kwargs)}

FallbackText == IF args.fallback = None THEN <<>> ELSE args.fallback.val

KeyAbsent == op = "translate_text" /\ ~dict_has(TRANSLATIONS, args.key)

\* the fields of the two texts a translate_text call resolves that the
\* call does not supply
MissingFields ==
    LET zh == IF KeyAbsent THEN FallbackText ELSE TextEntry.zh
        en == IF KeyAbsent THEN FallbackText ELSE TextEntry.en
    IN  (Fields(zh) \cup Fields(en)) \ Supplied

\* C5 as stated: translate_text raises the formatting error whenever a text
\* it resolves names a field that is not supplied, in every mode, for a
\* table entry and for the fallback of an absent key alike.
C5_Original ==
    (op = "translate_text" /\ MissingFields # {}) => ret.exc = "KeyError"

\* C5 amended: translate_text raises the formatting error, in every mode,
\* whenever the table entry's text for either language names a field that is
\* not supplied; for an absent key the fallback is not formatted and nothing
\* is raised.
C5_Amended ==
    op = "translate_text" =>
        /\ (~KeyAbsent /\ MissingFields # {}) => ret.exc = "KeyError"
        /\ KeyAbsent => ret.exc = "none"

\* C5 witness: display.analysis_heading without its ticker raised in EN mode
C5_Witness ==
    /\ op = "translate_text"
    /\ args.key = "display.analysis_heading"
    /\ args.language = "EN"
    /\ args.kwargs = <<>>
    /\ ret.exc = "KeyError"

\* C6 as stated: for an absent key translate_text never raises and returns
\* the fallback (the empty string without one) in every mode.
C6_Original ==
    KeyAbsent => ret = Ok(FallbackText)

\* C6 amended: for an absent key translate_text never raises; it returns the
\* fallback (the empty string without one) in ZH and EN, and in BOTH the
\* fallback once with its leading and trailing white space stripped (the
\* fallback unchanged when it is nothing but white space).
C6_Amended ==
    KeyAbsent =>
        /\ ret.exc = "none"
        /\ args.language \in {"ZH", "EN"} => ret.val = FallbackText
        /\ args.language = "BOTH" =>
               ret.val = IF str_strip(FallbackText) = <<>> THEN FallbackText
                         ELSE str_strip(FallbackText)

\* C6 witness: the fallback " Agent\n" of an absent key came back as "Agent"
\* in BOTH mode
C6_Witness ==
    /\ KeyAbsent
    /\ args.language = "BOTH"
    /\ args.fallback = Str(<<" ","A","g","e","n","t","\n">>)
    /\ ret = Ok(<<"A","g","e","n","t">>)

\* a vocabulary lookup whose key is not in its table: the status phrase, the
\* agent key, the upper-cased signal or action
VocabularyMiss ==
    \/ op = "translate_status" /\ ~dict_has(STATUS_TRANSLATIONS, args.text)
    \/ op = "translate_agent_name" /\ ~dict_has(AGENT_NAME_TRANSLATIONS, args.text)
    \/ op = "translate_signal" /\ ~dict_has(SIGNAL_TRANSLATIONS, str_upper(args.text))
    \/ op = "translate_action" /\ ~dict_has(ACTION_TRANSLATIONS, str_upper(args.text))

\* the value the lookup falls back to
VocabularyFallback ==
    IF op = "translate_status" THEN args.text
    ELSE IF op = "translate_agent_name"
         THEN str_title(str_replace(args.text, <<"_">>, <<" ">>))
         ELSE str_upper(args.text)

\* C7 as stated: a vocabulary lookup of an absent input returns the fallback
\* value (the phrase, the upper-cased signal or action, the title-cased agent
\* key) in ZH, EN and BOTH, once.
C7_Original ==
    VocabularyMiss => ret = Ok(VocabularyFallback)

\* C7 amended: a vocabulary lookup whose key (the phrase, the agent key, the
\* upper-cased signal or action) is absent never fails; it returns the
\* fallback value in ZH and EN, and in BOTH the fallback value once with its
\* leading and trailing white space stripped (unchanged when it is nothing
\* but white space).
C7_Amended ==
    VocabularyMiss =>
        /\ ret.exc = "none"
        /\ args.language \in {"ZH", "EN"} => ret.val = VocabularyFallback
        /\ args.language = "BOTH" =>
               ret.val = IF str_strip(VocabularyFallback) = <<>> THEN VocabularyFallback
                         ELSE str_strip(VocabularyFallback)

\* C7 witness: the unknown agent key "foo_" came back as "Foo" in BOTH mode
C7_Witness ==
    /\ op = "translate_agent_name"
    /\ args.text = <<"f","o","o","_">>
    /\ args.language = "BOTH"
    /\ ret = Ok(<<"F","o","o">>)

(***************************************************************************)
(* display.py: print_trading_output.                                       *)
(*                                                                         *)
(* A reasoning payload is None, Absent (the key is missing), Str(s),       *)
(* IntVal(n), Dict(d) for a flat dict with string keys, or SetOf(S) for a  *)
(* set of integers, a value json.dumps cannot serialize.  What the         *)
(* function                                                                *)
(* prints is a sequence of items [kind, ticker, body]; a coloured span     *)
(* f"{colour}{text}{Style.RESET_ALL}" is the cell [color, text].           *)
(***************************************************************************)
Absent == [tag |-> "absent"]

IntVal(n) == [tag |-> "int", val |-> n]

Dict(d) == [tag |-> "dict", val |-> d]

SetOf(S) == [tag |-> "set", val |-> S]

\* the truth value of a payload: `if reasoning`
truthy(p) ==
    CASE p.tag = "str" -> p.val # <<>>
      [] p.tag = "dict" -> p.val # <<>>
      [] p.tag = "int" -> p.val # 0
      [] p.tag = "set" -> p.val # {}
      [] OTHER -> FALSE

Digits == <<"0","1","2","3","4","5","6","7","8","9">>

RECURSIVE int_str(_)
\* str(n) of an integer
int_str(n) ==
    IF n < 0 THEN <<"-">> \o int_str(-n)
    ELSE IF n < 10 THEN <<Digits[n + 1]>>
    ELSE int_str(n \div 10) \o <<Digits[(n % 10) + 1]>>

\* str(value) of a payload that is neither a string nor a dict; a set is
\* written for its one element
py_str(p) ==
    CASE p.tag = "int" -> int_str(p.val)
      [] p.tag = "set" -> <<"{">> \o int_str(CHOOSE n \in p.val : TRUE) \o <<"}">>
      [] p.tag = "str" -> p.val
      [] OTHER -> <<"N","o","n","e">>

\* the JSON escape of a character of a string
json_chr(c) ==
    CASE c = "\"" -> <<"\\", "\"">>
      [] c = "\\" -> <<"\\", "\\">>
      [] c = "\n" -> <<"\\", "n">>
      [] c = "\t" -> <<"\\", "t">>
      [] c = "\r" -> <<"\\", "r">>
      [] c = "\f" -> <<"\\", "f">>
      [] OTHER -> <<c>>

RECURSIVE json_str(_)
json_str(s) == IF s = <<>> THEN <<>> ELSE json_chr(s[1]) \o json_str(Tail(s))

\* json.dumps of a value inside a dict: a set raises TypeError
json_value(p) ==
    CASE p.tag = "str" -> Ok(<<"\"">> \o json_str(p.val) \o <<"\"">>)
      [] p.tag = "int" -> Ok(int_str(p.val))
      [] p.tag = "None" -> Ok(<<"n","u","l","l">>)
      [] OTHER -> Raise("TypeError")

RECURSIVE json_items(_, _)
\* the items of a flat dict at indent 2, from the i-th on
json_items(d, i) ==
    IF i > Len(d) THEN Ok(<<>>)
    ELSE LET v == json_value(d[i][2])
             rest == json_items(d, i + 1)
         IN  IF v.exc # "none" THEN v
             ELSE IF rest.exc # "none" THEN rest
             ELSE Ok(<<" ", " ", "\"">> \o json_str(d[i][1]) \o <<"\"", ":", " ">> \o v.val
                     \o (IF i < Len(d) THEN <<",", "\n">> ELSE <<>>) \o rest.val)

\* json.dumps(reasoning, indent=2) of a non-empty flat dict
json_dumps(p) ==
    LET items == json_items(p.val, 1)
    IN  IF items.exc # "none" THEN items
        ELSE Ok(<<"{", "\n">> \o items.val \o <<"\n", "}">>)

\* the width the reasoning is wrapped to
max_line_length == 60

\* a mutant of wrap_loop: the separating space is not counted
RECURSIVE wrap_loop_NoSpace(_, _, _, _)
wrap_loop_NoSpace(words, k, current_line, wrapped_reasoning) ==
    IF k > Len(words)
    THEN IF current_line # <<>> THEN wrapped_reasoning \o current_line
         ELSE wrapped_reasoning
    ELSE IF Len(current_line) + Len(words[k]) > max_line_length
         THEN wrap_loop_NoSpace(words, k + 1, words[k],
                                wrapped_reasoning \o current_line \o <<"\n">>)
         ELSE IF current_line # <<>>
              THEN wrap_loop_NoSpace(words, k + 1, current_line \o <<" ">> \o words[k],
                                     wrapped_reasoning)
              ELSE wrap_loop_NoSpace(words, k + 1, words[k], wrapped_reasoning)

RECURSIVE wrap_loop(_, _, _, _)
\* the wrap loop from the k-th word on, and the flush after it
wrap_loop(words, k, current_line, wrapped_reasoning) ==
    IF k > Len(words)
    THEN IF current_line # <<>> THEN wrapped_reasoning \o current_line
         ELSE wrapped_reasoning
    ELSE IF Len(current_line) + Len(words[k]) + 1 > max_line_length
         THEN wrap_loop(words, k + 1, words[k],
                        wrapped_reasoning \o current_line \o <<"\n">>)
         ELSE IF current_line # <<>>
              THEN wrap_loop(words, k + 1, current_line \o <<" ">> \o words[k],
                             wrapped_reasoning)
              ELSE wrap_loop(words, k + 1, words[k], wrapped_reasoning)

\* a mutant of reasoning_words: the text is split at spaces only
reasoning_words_SpacesOnly(reasoning_str) ==
    LET s == reasoning_str
        starts == {i \in 1..Len(s) : s[i] # " " /\ (i = 1 \/ s[i-1] = " ")}
        EndOf(i) == CHOOSE j \in i..Len(s) :
                      /\ \A k \in i..j : s[k] # " "
                      /\ (j = Len(s) \/ s[j+1] = " ")
        Nth(n) == CHOOSE i \in starts : Cardinality({j \in starts : j < i}) = n - 1
    IN  [n \in 1..Cardinality(starts) |-> SubSeq(s, Nth(n), EndOf(Nth(n)))]

\* reasoning_str.split()
reasoning_words(reasoning_str) == str_split(reasoning_str)

\* the wrapper: the words of the text, wrapped to max_line_length
wrap_reasoning(reasoning_str) == wrap_loop(reasoning_words(reasoning_str), 1, <<>>, <<>>)

\* the text of a truthy reasoning of an agent signal or, in the strategy
\* block, of a decision: a string as it is, a dict through json.dumps, any
\* other value through str
reasoning_text(reasoning) ==
    IF reasoning.tag = "str" THEN Ok(reasoning.val)
    ELSE IF reasoning.tag = "dict" THEN json_dumps(reasoning)
    ELSE Ok(py_str(reasoning))

\* the wrapped text, or the exception the conversion raised
wrapped_text(reasoning_str) ==
    IF reasoning_str.exc # "none" THEN reasoning_str
    ELSE Ok(wrap_reasoning(reasoning_str.val))

\* the reasoning cell of an agent-signal row
agent_reasoning(signal) ==
    IF ~truthy(signal.reasoning) THEN Ok(<<>>)
    ELSE wrapped_text(reasoning_text(signal.reasoning))

\* the reasoning cell of the trading-decision table: reasoning.split() is
\* called on whatever truthy value the decision holds
decision_reasoning(decision) ==
    IF ~truthy(decision.reasoning) THEN Ok(<<>>)
    ELSE IF decision.reasoning.tag # "str" THEN Raise("AttributeError")
    ELSE Ok(wrap_reasoning(decision.reasoning.val))

\* the wrapped reasoning of the portfolio-strategy block
portfolio_reasoning(portfolio_manager_reasoning) ==
    wrapped_text(reasoning_text(portfolio_manager_reasoning))

Cell(color, text) == [color |-> color, text |-> text]

Item(kind, ticker, body) == [kind |-> kind, ticker |-> ticker, body |-> body]

\* the agent whose signals are left out of the agent-signal table
RiskManagementAgent == <<"r","i","s","k","_","m","a","n","a","g","e","m","e","n","t","_","a","g","e","n","t">>

AgentSuffix == <<"_","a","g","e","n","t">>

\* the rank of an agent that the ordering map does not hold
MissingRank == 999

\* the length of the rule under a ticker's heading
RuleLength == 50

\* d[k] = v on a dict
dict_set(d, k, v) ==
    IF dict_has(d, k)
    THEN [i \in 1..Len(d) |-> IF d[i][1] = k THEN <<k, v>> ELSE d[i]]
    ELSE Append(d, <<k, v>>)

\* analyst_order: the ordering map with risk_management added at rank len(map)
analyst_order_of(order_map) ==
    dict_set(order_map, <<"r","i","s","k","_","m","a","n","a","g","e","m","e","n","t">>,
             Len(order_map))

\* the colour of a signal type
signal_color(signal_type) ==
    dict_get(<< <<<<"B","U","L","L","I","S","H">>, "GREEN">>,
                <<<<"B","E","A","R","I","S","H">>, "RED">>,
                <<<<"N","E","U","T","R","A","L">>, "YELLOW">> >>,
             signal_type, "WHITE")

\* the colour of an action in print_trading_output
action_color(action) ==
    dict_get(<< <<<<"B","U","Y">>, "GREEN">>,
                <<<<"S","E","L","L">>, "RED">>,
                <<<<"H","O","L","D">>, "YELLOW">>,
                <<<<"C","O","V","E","R">>, "GREEN">>,
                <<<<"S","H","O","R","T">>, "RED">> >>,
             action, "WHITE")

\* f"{x:.1f}" of a number given in tenths
format_1f(tenths) ==
    (IF tenths < 0 THEN <<"-">> ELSE <<>>)
    \o int_str((IF tenths < 0 THEN -tenths ELSE tenths) \div 10)
    \o <<".">> \o int_str((IF tenths < 0 THEN -tenths ELSE tenths) % 10)

\* agent_key: the agent identifier with "_agent" replaced by nothing
agent_key_of(agent) == str_replace(agent, AgentSuffix, <<>>)

\* a mutant of rank_of: an agent outside the ordering map gets rank 0
rank_of_Zero(analyst_order, agent_key) == dict_get(analyst_order, agent_key, 0)

\* analyst_order.get(agent_key, 999)
rank_of(analyst_order, agent_key) == dict_get(analyst_order, agent_key, MissingRank)

\* the row appended to table_rows; the field agent is a ghost that records
\* the agent the row was built from
table_row(agent, agent_key, signal_type, confidence, reasoning_str, language, analyst_order) ==
    IF reasoning_str.exc # "none" THEN reasoning_str
    ELSE Ok([rank |-> rank_of(analyst_order, agent_key),
             agent |-> agent,
             cells |-> <<Cell("CYAN", translate_agent_name(agent_key, language)),
                         Cell(signal_color(signal_type),
                              translate_signal(signal_type, language)),
                         Cell("WHITE", int_str(confidence) \o <<"%">>),
                         Cell("WHITE", reasoning_str.val)>>])

\* one pass of the loop over analyst_signals for an agent that is not skipped
signal_row(agent, signal, language, analyst_order) ==
    table_row(agent, agent_key_of(agent), str_upper(signal.signal), signal.confidence,
              agent_reasoning(signal), language, analyst_order)

\* table_rows after a pass that built row, the later passes giving rest
rows_join(row, rest) ==
    IF row.exc # "none" THEN row
    ELSE IF rest.exc # "none" THEN rest
    ELSE Ok(<<row.val>> \o rest.val)

RECURSIVE signal_rows(_, _, _, _, _)
\* table_rows of a ticker: the loop over analyst_signals from the i-th agent
signal_rows(analyst_signals, i, ticker, language, analyst_order) ==
    IF i > Len(analyst_signals) THEN Ok(<<>>)
    ELSE IF \/ ~dict_has(analyst_signals[i][2], ticker)
            \/ analyst_signals[i][1] = RiskManagementAgent
         THEN signal_rows(analyst_signals, i + 1, ticker, language, analyst_order)
         ELSE rows_join(signal_row(analyst_signals[i][1],
                                   dict_get(analyst_signals[i][2], ticker, None),
                                   language, analyst_order),
                        signal_rows(analyst_signals, i + 1, ticker, language,
                                    analyst_order))

\* sorted(table_rows, key=lambda r: r[0]): a stable sort by rank
sorted_rows(table_rows) ==
    LET Before(i, j) ==
            \/ table_rows[i].rank < table_rows[j].rank
            \/ table_rows[i].rank = table_rows[j].rank /\ i < j
        At(n) == CHOOSE i \in 1..Len(table_rows) :
                   Cardinality({j \in 1..Len(table_rows) : Before(j, i)}) = n - 1
    IN  [n \in 1..Len(table_rows) |-> table_rows[At(n)]]

\* the rows as tabulate gets them: without their rank
without_rank(sorted) ==
    [n \in 1..Len(sorted) |-> [agent |-> sorted[n].agent, cells |-> sorted[n].cells]]

\* table_data: the sorted rows without their rank
table_data_of(table_rows) == without_rank(sorted_rows(table_rows))

\* translate_text of a key of the table whose fields the caller supplies;
\* the fallback <<>> stands for a call that passes none
text_of(key, language, fallback, kwargs) ==
    translate_text(key, language, IF fallback = <<>> THEN None ELSE Str(fallback),
                   kwargs).val

TickerKwargs(ticker) == << <<<<"t","i","c","k","e","r">>, ticker>> >>

\* the headers of the agent-signal table
agent_headers(language) ==
    <<Cell("WHITE", text_of("display.table.agent", language, <<"A","g","e","n","t">>, <<>>)),
      Cell("", text_of("display.table.signal", language, <<"S","i","g","n","a","l">>, <<>>)),
      Cell("", text_of("display.table.confidence", language,
                       <<"C","o","n","f","i","d","e","n","c","e">>, <<>>)),
      Cell("", text_of("display.table.reasoning", language,
                       <<"R","e","a","s","o","n","i","n","g">>, <<>>))>>

\* decision_data, given the wrapped reasoning
decision_data(decision, wrapped_reasoning, language) ==
    LET action == str_upper(decision.action)
    IN  <<<<text_of("display.table.action", language, <<"A","c","t","i","o","n">>, <<>>),
            Cell(action_color(action), translate_action(action, language))>>,
          <<text_of("display.table.quantity", language,
                    <<"Q","u","a","n","t","i","t","y">>, <<>>),
            Cell(action_color(action), int_str(decision.quantity))>>,
          <<text_of("display.table.confidence", language,
                    <<"C","o","n","f","i","d","e","n","c","e">>, <<>>),
            Cell("WHITE", format_1f(decision.confidence) \o <<"%">>)>>,
          <<text_of("display.table.reasoning", language,
                    <<"R","e","a","s","o","n","i","n","g">>, <<>>),
            Cell("WHITE", wrapped_reasoning)>>>>

\* what a step prints after what was printed before it; an exception of
\* the earlier step ends the call before the later one
then_items(done, next) ==
    IF done.exc # "none" THEN done
    ELSE [exc |-> next.exc, val |-> done.val \o next.val]

\* the heading of a ticker and the rule under it
ticker_heading(ticker, language) ==
    <<Item("heading", ticker,
           Cell("WHITE", text_of("display.analysis_heading", language, <<>>,
                                 TickerKwargs(ticker)))),
      Item("rule", ticker, Cell("WHITE", [i \in 1..RuleLength |-> "="]))>>

\* the agent-analysis header and table, once table_rows is built
agent_items(ticker, table_rows, language) ==
    IF table_rows.exc # "none" THEN [exc |-> table_rows.exc, val |-> <<>>]
    ELSE Ok(<<Item("agent_header", ticker,
                   Cell("WHITE", text_of("display.agent_analysis_header", language, <<>>,
                                         TickerKwargs(ticker)))),
              Item("agent_table", ticker,
                   [headers |-> agent_headers(language),
                    rows |-> table_data_of(table_rows.val)])>>)

\* the trading-decision header and table, once the reasoning is wrapped
decision_items(ticker, decision, wrapped_reasoning, language) ==
    IF wrapped_reasoning.exc # "none" THEN [exc |-> wrapped_reasoning.exc, val |-> <<>>]
    ELSE Ok(<<Item("decision_header", ticker,
                   Cell("WHITE", text_of("display.trading_decision_header", language,
                                         <<>>, TickerKwargs(ticker)))),
              Item("decision_table", ticker,
                   decision_data(decision, wrapped_reasoning.val, language))>>)

\* the body of the loop over decisions for one ticker: what it prints, and
\* the exception that ends it
ticker_block(ticker, decision, analyst_signals, language, analyst_order) ==
    then_items(
        then_items(Ok(ticker_heading(ticker, language)),
                   agent_items(ticker,
                               signal_rows(analyst_signals, 1, ticker, language,
                                           analyst_order),
                               language)),
        decision_items(ticker, decision, decision_reasoning(decision), language))

RECURSIVE ticker_blocks(_, _, _, _, _)
\* the loop over decisions from the i-th ticker on
ticker_blocks(decisions, i, analyst_signals, language, analyst_order) ==
    IF i > Len(decisions) THEN Ok(<<>>)
    ELSE then_items(ticker_block(decisions[i][1], decisions[i][2], analyst_signals,
                                 language, analyst_order),
                    ticker_blocks(decisions, i + 1, analyst_signals, language,
                                  analyst_order))

\* portfolio_manager_reasoning: the first truthy reasoning, or None
first_reasoning(decisions) ==
    LET found == {i \in 1..Len(decisions) : truthy(decisions[i][2].reasoning)}
    IN  IF found = {} THEN None
        ELSE decisions[CHOOSE i \in found : \A j \in found : i <= j][2].reasoning

\* one row of portfolio_data
portfolio_row(ticker, decision, language) ==
    LET action == str_upper(decision.action)
    IN  <<Cell("CYAN", ticker),
          Cell(action_color(action), translate_action(action, language)),
          Cell(action_color(action), int_str(decision.quantity)),
          Cell("WHITE", format_1f(decision.confidence) \o <<"%">>)>>

\* the headers of the portfolio summary table
portfolio_headers(language) ==
    <<Cell("WHITE", text_of("display.table.ticker", language, <<"T","i","c","k","e","r">>, <<>>)),
      Cell("", text_of("display.table.action", language, <<"A","c","t","i","o","n">>, <<>>)),
      Cell("", text_of("display.table.quantity", language,
                       <<"Q","u","a","n","t","i","t","y">>, <<>>)),
      Cell("", text_of("display.table.portfolio_confidence", language,
                       <<"C","o","n","f","i","d","e","n","c","e">>, <<>>))>>

\* the portfolio summary header and table
portfolio_summary(decisions, language) ==
    <<Item("portfolio_header", <<>>,
           Cell("WHITE", text_of("display.portfolio_summary_header", language,
                                 <<>>, <<>>))),
      Item("portfolio_table", <<>>,
           [headers |-> portfolio_headers(language),
            rows |-> [i \in 1..Len(decisions) |->
                        portfolio_row(decisions[i][1], decisions[i][2], language)]])>>

\* the portfolio-strategy header and text, once the reasoning is wrapped
strategy_items(wrapped_reasoning, language) ==
    IF wrapped_reasoning.exc # "none" THEN [exc |-> wrapped_reasoning.exc, val |-> <<>>]
    ELSE Ok(<<Item("strategy_header", <<>>,
                   Cell("WHITE", text_of("display.portfolio_strategy_header",
                                         language, <<>>, <<>>))),
              Item("strategy_text", <<>>,
                   Cell("CYAN", text_of("display.portfolio_strategy_text", language,
                                        <<>>, << <<<<"t","e","x","t">>,
                                                 wrapped_reasoning.val>> >>)))>>)

\* the portfolio-strategy block: printed when some decision has a truthy
\* reasoning
strategy_block(portfolio_manager_reasoning, language) ==
    IF ~truthy(portfolio_manager_reasoning) THEN Ok(<<>>)
    ELSE strategy_items(portfolio_reasoning(portfolio_manager_reasoning), language)

\* the portfolio summary and the portfolio-strategy block
portfolio_block(decisions, language) ==
    then_items(Ok(portfolio_summary(decisions, language)),
               strategy_block(first_reasoning(decisions), language))

\* the language of a call: a Language member as it is, anything else
\* through Language.from_value
language_of(language) ==
    IF language.tag = "Language" THEN language.name ELSE from_value(language).val

\* the no-decisions message
no_decisions_message(language) ==
    <<Item("message", <<>>,
           Cell("RED", text_of("display.no_decisions", language,
                               <<"N","o"," ","t","r","a","d","i","n","g"," ",
                                 "d","e","c","i","s","i","o","n","s"," ",
                                 "a","v","a","i","l","a","b","l","e">>, <<>>)))>>

\* a mutant of print_decisions: only a missing or None decisions entry is
\* treated as nothing to render, an empty one goes on to the tables
print_decisions_EmptyRenders(decisions, analyst_signals, language, analyst_order) ==
    IF decisions.tag # "dict" THEN Ok(no_decisions_message(language))
    ELSE then_items(ticker_blocks(decisions.val, 1, analyst_signals, language,
                                  analyst_order),
                    portfolio_block(decisions.val, language))

\* what print_trading_output prints for the decisions it read
print_decisions(decisions, analyst_signals, language, analyst_order) ==
    IF ~truthy(decisions) THEN Ok(no_decisions_message(language))
    ELSE then_items(ticker_blocks(decisions.val, 1, analyst_signals, language,
                                  analyst_order),
                    portfolio_block(decisions.val, language))

\* print_trading_output(result, language); order_map is what
\* get_analyst_order_map() returns
print_trading_output(result, language_arg, order_map) ==
    print_decisions(dict_get(result, "decisions", None),
                    dict_get(result, "analyst_signals", Dict(<<>>)).val,
                    language_of(language_arg), analyst_order_of(order_map))

(***************************************************************************)
(* Inputs of print_trading_output.                                         *)
(***************************************************************************)
\* most words of a reasoning text
MaxWords == 3
\* most agents in analyst_signals
MaxAgents == 4

AAPL == <<"A","A","P","L">>

MSFT == <<"M","S","F","T">>

Member(name) == [tag |-> "Language", name |-> name]

\* word lengths around half the width and around the width
WordLengths ==
    {1, (max_line_length \div 2) - 1, max_line_length \div 2,
     max_line_length, max_line_length + 1}

WordOf(n) == [i \in 1..n |-> "a"]

Separators == {<<" ">>, <<"\n">>, <<" ", "\n", " ">>}

RECURSIVE JoinWords(_, _)
JoinWords(lengths, sep) ==
    IF lengths = <<>> THEN <<>>
    ELSE IF Len(lengths) = 1 THEN WordOf(lengths[1])
    ELSE WordOf(lengths[1]) \o sep \o JoinWords(Tail(lengths), sep)

\* reasoning texts of at most MaxWords words
ReasoningTexts ==
    {JoinWords(ls, sep) : ls \in StringsUpTo(WordLengths, MaxWords), sep \in Separators}
    \cup {<<" ">>, <<"\n", "a", " ">>, WordOf(max_line_length - 1),
          JoinWords(<<max_line_length - 2, 1, 1>>, <<" ">>)}

Decision(action, confidence, reasoning) ==
    [action |-> action, quantity |-> 10, confidence |-> confidence, reasoning |-> reasoning]

Signal(signal, reasoning) ==
    [signal |-> signal, confidence |-> 75, reasoning |-> reasoning]

Result(decisions, analyst_signals) ==
    <<<<"decisions", Dict(decisions)>>, <<"analyst_signals", Dict(analyst_signals)>>>>

WarrenBuffettAgent == <<"w","a","r","r","e","n","_","b","u","f","f","e","t","t">> \o AgentSuffix

BenGrahamAgent == <<"b","e","n","_","g","r","a","h","a","m">> \o AgentSuffix

\* get_analyst_order_map(): a map from agent key to rank
AnalystOrderMaps ==
    {<< <<<<"b","e","n","_","g","r","a","h","a","m">>, 0>>,
        <<<<"w","a","r","r","e","n","_","b","u","f","f","e","t","t">>, 1>> >>,
     << <<<<"w","a","r","r","e","n","_","b","u","f","f","e","t","t">>, 0>>,
        <<<<"b","e","n","_","g","r","a","h","a","m">>, 0>> >>}

DefaultOrderMap ==
    << <<<<"b","e","n","_","g","r","a","h","a","m">>, 0>>,
       <<<<"w","a","r","r","e","n","_","b","u","f","f","e","t","t">>, 1>> >>

\* one agent, one ticker; the agent's and the decision's reasoning is the
\* same text
WrapResults ==
    {Result(<< <<AAPL, Decision(<<"b","u","y">>, 875, Str(t))>> >>,
            << <<WarrenBuffettAgent, << <<AAPL, Signal(<<"b","u","l","l","i","s","h">>, Str(t))>> >> >> >>)
        : t \in ReasoningTexts}

Payloads ==
    {Absent, None, Str(<<>>), Str(<<"S","t","r","o","n","g"," ","m","o","a","t">>),
     IntVal(0), IntVal(42), SetOf({}), SetOf({7}), Dict(<<>>),
     Dict(<< <<<<"k">>, Str(<<"v","\n","w">>)>>, <<<<"n">>, IntVal(3)>> >>),
     Dict(<< <<<<"s">>, SetOf({7})>> >>)}

\* two tickers; the agent's reasoning and the first decision's reasoning are
\* payloads of any shape
PayloadResults ==
    {Result(<< <<AAPL, Decision(<<"s","e","l","l">>, 500, p2)>>,
               <<MSFT, Decision(<<"H","O","L","D">>, 1000, Str(<<"o","k">>))>> >>,
            << <<BenGrahamAgent, << <<AAPL, Signal(<<"B","e","a","r","i","s","h">>, p1)>>,
                                    <<MSFT, Signal(<<"n","e","u","t","r","a","l">>, Absent)>> >> >> >>)
        : p1 \in Payloads, p2 \in Payloads}

AgentPool ==
    {WarrenBuffettAgent, BenGrahamAgent, RiskManagementAgent,
     <<"f","o","o">> \o AgentSuffix,
     <<"r","i","s","k","_","m","a","n","a","g","e","m","e","n","t">>}

\* the signals of an agent: for both tickers, or for MSFT alone
SignalsOf(both) ==
    IF both
    THEN << <<AAPL, Signal(<<"b","u","l","l","i","s","h">>, Absent)>>,
            <<MSFT, Signal(<<"h","m","m">>, Str(<<"n","o","t","e">>))>> >>
    ELSE << <<MSFT, Signal(<<"b","e","a","r","i","s","h">>, Absent)>> >>

\* analyst_signals of at most MaxAgents distinct agents in any order; at most
\* one of them, the only-th, has a signal for MSFT alone
AgentSignals ==
    {[i \in 1..Len(ao[1]) |-> <<ao[1][i], SignalsOf(i # ao[2])>>] :
        ao \in UNION {{x \in [1..k -> AgentPool] \X (0..k) :
                          \A i, j \in 1..k : i # j => x[1][i] # x[1][j]} :
                      k \in 0..MaxAgents}}

SortResults ==
    {Result(<< <<AAPL, Decision(<<"c","o","v","e","r">>, 5, None)>>,
               <<MSFT, Decision(<<"w","a","i","t">>, 0, Absent)>> >>, signals)
        : signals \in AgentSignals}

\* agent identifiers that hold "_agent" elsewhere than at their end
InnerSuffixAgents ==
    {<<"f","o","o">> \o AgentSuffix \o <<"_","b","a","r">>,
     <<"x">> \o AgentSuffix \o <<"_","y">> \o AgentSuffix,
     AgentSuffix \o <<"s">>}

\* one ticker and one agent whose identifier holds "_agent" inside
KeyResults ==
    {Result(<< <<AAPL, Decision(<<"b","u","y">>, 10, None)>> >>,
            << <<agent, << <<AAPL, Signal(<<"n","e","u","t","r","a","l">>, None)>> >> >> >>)
        : agent \in InnerSuffixAgents}

\* no decisions: the key is missing, None, or an empty dict
EmptyResults ==
    {<<>>,
     << <<"decisions", None>> >>,
     << <<"decisions", Dict(<<>>)>> >>,
     << <<"analyst_signals", Dict(<< <<BenGrahamAgent, SignalsOf(TRUE)>> >>)>> >>,
     << <<"decisions", Dict(<<>>)>>,
        <<"analyst_signals", Dict(<< <<BenGrahamAgent, SignalsOf(TRUE)>> >>)>> >>}

Members == {Member(l) : l \in Languages}

LanguageArgs == Members \cup {None, Str(<<"E","N">>), Str(<<"f","r">>)}

\* the calls of print_trading_output: <<result, language, order map>>
PrintCalls ==
    (WrapResults \X {Member("BOTH")} \X {DefaultOrderMap})
    \cup (PayloadResults \X LanguageArgs \X {DefaultOrderMap})
    \cup (SortResults \X {Member("EN")} \X AnalystOrderMaps)
    \cup (EmptyResults \X LanguageArgs \X {DefaultOrderMap})
    \cup (KeyResults \X {Member("EN"), Member("BOTH")} \X {DefaultOrderMap})

Call_print_trading_output ==
    \E call \in PrintCalls :
        /\ Idle
        /\ op' = "print_trading_output"
        /\ args' = [result |-> call[1], language |-> call[2], order_map |-> call[3]]
        /\ ret' = print_trading_output(call[1], call[2], call[3])

NextDisplay ==
    \/ Call_print_trading_output
    \/ Return

SpecDisplay == Init /\ [][NextDisplay]_vars


(***************************************************************************)
(* Claims about print_trading_output.                                      *)
(***************************************************************************)

Printed == op = "print_trading_output"

\* the positions of the printed items of a kind
ItemsOf(kind) == {n \in 1..Len(ret.val) : ret.val[n].kind = kind}

\* the decisions and the analyst signals the call was given
GivenDecisions == dict_get(args.result, "decisions", None)

GivenSignals == dict_get(args.result, "analyst_signals", Dict(<<>>)).val

\* <<input, output>> of the wrapper at the agent-signal rows and at the
\* trading-decision tables of the printed output, for string reasonings
AgentWraps ==
    {<<dict_get(dict_get(GivenSignals, ret.val[n].body.rows[r].agent, <<>>),
                ret.val[n].ticker, None).reasoning.val,
       ret.val[n].body.rows[r].cells[4].text>> :
        <<n, r>> \in {nr \in ItemsOf("agent_table") \X (1..(MaxAgents + 1)) :
                        /\ nr[2] <= Len(ret.val[nr[1]].body.rows)
                        /\ LET signal == dict_get(dict_get(GivenSignals,
                                                           ret.val[nr[1]].body.rows[nr[2]].agent,
                                                           <<>>),
                                                  ret.val[nr[1]].ticker, None)
                           IN  signal.reasoning.tag = "str" /\ signal.reasoning.val # <<>>}}

DecisionWraps ==
    {<<dict_get(GivenDecisions.val, ret.val[n].ticker, None).reasoning.val,
       ret.val[n].body[4][2].text>> :
        n \in {m \in ItemsOf("decision_table") :
                 LET reasoning == dict_get(GivenDecisions.val, ret.val[m].ticker, None).reasoning
                 IN  reasoning.tag = "str" /\ reasoning.val # <<>>}}

Wraps == AgentWraps \cup DecisionWraps

\* every wrapped reasoning of the printed output: the reasoning cells of the
\* agent-signal rows and of the trading-decision tables, and the strategy text
WrappedTexts ==
    {ret.val[n].body.rows[r].cells[4].text :
        <<n, r>> \in {nr \in ItemsOf("agent_table") \X (1..(MaxAgents + 1)) :
                        nr[2] <= Len(ret.val[nr[1]].body.rows)}}
    \cup {ret.val[n].body[4][2].text : n \in ItemsOf("decision_table")}
    \cup {ret.val[n].body.text : n \in ItemsOf("strategy_text")}

\* the lines of a text: what stands between its line breaks
LinesOf(t) ==
    LET breaks == {0, Len(t) + 1} \cup {i \in 1..Len(t) : t[i] = "\n"}
    IN  {SubSeq(t, p[1] + 1, p[2] - 1) :
            p \in {q \in breaks \X breaks :
                     q[1] < q[2] /\ \A c \in breaks : ~(q[1] < c /\ c < q[2])}}

\* the number of words of a line
WordCount(line) ==
    Cardinality({i \in 1..Len(line) :
                   line[i] \notin Whitespace /\ (i = 1 \/ line[i - 1] \in Whitespace)})

HasLineBreak(t) == \E i \in 1..Len(t) : t[i] = "\n"

\* the text has a word of more than max_line_length characters
HasLongWord(t) ==
    \E i \in 1..Len(t) : \E j \in i..Len(t) :
        j - i + 1 > max_line_length /\ \A k \in i..j : t[k] \notin Whitespace

\* C4 (as the specification states it): whatever the shape of a reasoning
\* payload, print_trading_output renders it without raising: a call that has
\* decisions to print ends without an exception and prints the
\* trading-decision table of every ticker.
C4_Original ==
    (Printed /\ truthy(GivenDecisions)) =>
        /\ ret.exc = "none"
        /\ \A i \in 1..Len(GivenDecisions.val) :
               \E n \in ItemsOf("decision_table") :
                   ret.val[n].ticker = GivenDecisions.val[i][1]

\* C8: every line of a wrapped reasoning that has more than 60 characters is
\* exactly one word, and every line of two or more words has at most 60
\* characters, separating spaces included.
C8_WrapWidth ==
    Printed =>
        \A t \in WrappedTexts : \A line \in LinesOf(t) :
            /\ Len(line) > max_line_length => WordCount(line) = 1
            /\ WordCount(line) >= 2 => Len(line) <= max_line_length

\* a wrapped reasoning with a line of two words that fills the width
\* exactly and a line that is one word longer than the width
C8_Witness ==
    /\ Printed
    /\ \E t \in WrappedTexts :
           /\ \E line \in LinesOf(t) : WordCount(line) = 2 /\ Len(line) = max_line_length
           /\ \E line \in LinesOf(t) : WordCount(line) = 1 /\ Len(line) > max_line_length

\* C9 (as the specification states it): wrapping the wrapper's output again
\* changes it whenever the input had a word longer than 60 characters or a
\* line break.
C9_Original ==
    Printed =>
        \A w \in Wraps :
            (HasLongWord(w[1]) \/ HasLineBreak(w[1])) => wrap_reasoning(w[2]) # w[2]

\* C9 (amended): the wrapper is idempotent: wrapping its output again at the
\* same width leaves the output unchanged for every input text, whether or
\* not the input had a word longer than 60 characters or line breaks.
C9_Amended ==
    Printed => \A w \in Wraps : wrap_reasoning(w[2]) = w[2]

\* an input with a line break and a word longer than the width, whose
\* wrapped output is wrapped on more than one line
C9_Witness ==
    /\ Printed
    /\ \E w \in Wraps :
           /\ HasLongWord(w[1])
           /\ HasLineBreak(w[1])
           /\ HasLineBreak(w[2])
           /\ w[1] # w[2]
           /\ wrap_reasoning(w[2]) = w[2]

\* the agents of the rows of the n-th printed item, an agent-signal table
RowAgents(n) == [r \in 1..Len(ret.val[n].body.rows) |-> ret.val[n].body.rows[r].agent]

\* the place of an agent in the iteration of the analyst-signal map
PlaceOf(agent) == CHOOSE i \in 1..Len(GivenSignals) : GivenSignals[i][1] = agent

\* the rank of an agent in the ordering map, 999 for an agent outside it
RankOf(agent) ==
    dict_get(analyst_order_of(args.order_map), agent_key_of(agent), 999)

\* the agents that have a signal for the ticker, risk_management_agent apart
Eligible(ticker) ==
    {GivenSignals[i][1] : i \in {j \in 1..Len(GivenSignals) :
                                   /\ dict_has(GivenSignals[j][2], ticker)
                                   /\ GivenSignals[j][1] # RiskManagementAgent}}

\* C10: in the agent-signal table of each ticker, risk_management_agent has
\* no row, every other agent with a signal for the ticker has exactly one
\* row, the rows are in non-decreasing order of rank (999 for an agent outside
\* the ordering map), and rows of equal rank keep the iteration order of the
\* analyst-signal map.
C10_RowOrder ==
    Printed =>
        \A n \in ItemsOf("agent_table") :
            LET agents == RowAgents(n)
            IN  /\ \A r \in 1..Len(agents) : agents[r] # RiskManagementAgent
                /\ \A r \in 1..Len(agents) : agents[r] \in Eligible(ret.val[n].ticker)
                /\ \A a \in Eligible(ret.val[n].ticker) :
                       Cardinality({r \in 1..Len(agents) : agents[r] = a}) = 1
                /\ \A r, q \in 1..Len(agents) :
                       r < q =>
                           /\ RankOf(agents[r]) <= RankOf(agents[q])
                           /\ RankOf(agents[r]) = RankOf(agents[q])
                                  => PlaceOf(agents[r]) < PlaceOf(agents[q])

\* a table of three rows built from four agents: risk_management_agent is
\* left out, two mapped agents of equal rank keep their order, and the agent
\* outside the map, iterated first, is last
C10_Witness ==
    /\ Printed
    /\ \E n \in ItemsOf("agent_table") :
           LET agents == RowAgents(n)
           IN  /\ Len(agents) = 3
               /\ \E i \in 1..Len(GivenSignals) :
                      /\ GivenSignals[i][1] = RiskManagementAgent
                      /\ dict_has(GivenSignals[i][2], ret.val[n].ticker)
               /\ RankOf(agents[1]) = RankOf(agents[2])
               /\ RankOf(agents[3]) = 999
               /\ PlaceOf(agents[3]) < PlaceOf(agents[1])


\* the kinds of the items that are tables
TableKinds == {"agent_table", "decision_table", "portfolio_table"}

\* C16: when the result has no "decisions" entry or an empty one,
\* print_trading_output prints exactly one message and returns without
\* raising and without any agent-signal, trading-decision or
\* portfolio-summary table, whatever the analyst signals are.
C16_NoDecisions ==
    (Printed /\ ~truthy(GivenDecisions)) =>
        /\ ret.exc = "none"
        /\ Len(ret.val) = 1
        /\ ret.val[1].kind = "message"
        /\ \A n \in 1..Len(ret.val) : ret.val[n].kind \notin TableKinds

\* an empty decisions entry next to analyst signals that hold a signal
C16_Witness ==
    /\ Printed
    /\ dict_has(args.result, "decisions")
    /\ GivenDecisions = Dict(<<>>)
    /\ dict_has(args.result, "analyst_signals")
    /\ GivenSignals # <<>>
    /\ ret = Ok(no_decisions_message(language_of(args.language)))


\* the first word of a text that has one
FirstWord(t) == str_split(t)[1]

\* the first line of a text
FirstLine(t) ==
    SubSeq(t, 1, (CHOOSE i \in 1..(Len(t) + 1) :
                    /\ (i = Len(t) + 1 \/ t[i] = "\n")
                    /\ \A j \in 1..(i - 1) : t[j] # "\n") - 1)

\* C17 (as the specification states it): the wrapper flushes the current
\* line only when it is non-empty: its output never begins with a line
\* break and has no empty line, and a first word of 60 or more characters
\* is the first line of the output.
C17_Original ==
    Printed =>
        \A w \in Wraps :
            w[2] # <<>> =>
                /\ w[2][1] # "\n"
                /\ \A line \in LinesOf(w[2]) : line # <<>>
                /\ Len(FirstWord(w[1])) >= max_line_length => FirstLine(w[2]) = FirstWord(w[1])


\* the identifier without its trailing "_agent", or as it is when it does
\* not end with "_agent"
WithoutSuffix(agent) ==
    IF /\ Len(agent) >= Len(AgentSuffix)
       /\ SubSeq(agent, Len(agent) - Len(AgentSuffix) + 1, Len(agent)) = AgentSuffix
    THEN SubSeq(agent, 1, Len(agent) - Len(AgentSuffix))
    ELSE agent

\* C18 (as the specification states it): the agent key is the identifier
\* with only its trailing "_agent" removed, so the name cell of every row is
\* the display name of that key: an "_agent" elsewhere in the identifier is
\* kept.
C18_Original ==
    Printed =>
        \A n \in ItemsOf("agent_table") :
            \A r \in 1..Len(ret.val[n].body.rows) :
                ret.val[n].body.rows[r].cells[1].text
                    = translate_agent_name(WithoutSuffix(ret.val[n].body.rows[r].agent),
                                           language_of(args.language))


(***************************************************************************)
(* display.py: format_backtest_row and print_backtest_results.  A row is   *)
(* a sequence of fields; a field that is a str is Str(text), the text      *)
(* holding the colorama escape sequences; the field with the index i of    *)
(* the source is at(row, i).  An amount of money, a percentage or a ratio  *)
(* with two decimal places is Num(n), n counting hundredths.               *)
(***************************************************************************)

\* the escape character that begins a colorama sequence
ESC == "ESC"

\* the ANSI sequence of a code
ansi(code) == <<ESC, "[">> \o code \o <<"m">>

\* colorama's Fore.<name>
Fore(name) ==
    CASE name = "RED" -> ansi(<<"3","1">>)
      [] name = "GREEN" -> ansi(<<"3","2">>)
      [] name = "YELLOW" -> ansi(<<"3","3">>)
      [] name = "BLUE" -> ansi(<<"3","4">>)
      [] name = "CYAN" -> ansi(<<"3","6">>)
      [] name = "WHITE" -> ansi(<<"3","7">>)

\* colorama's Style.BRIGHT and Style.RESET_ALL
StyleBright == ansi(<<"1">>)

StyleResetAll == ansi(<<"0">>)

\* a float with two decimal places, in hundredths
Num(n) == [tag |-> "num", val |-> n]

\* (x or 0) of an optional number
or_zero(x) == IF x.tag = "None" THEN 0 ELSE x.val

\* row[i], the fields of a row being counted from 0
at(row, i) == row[i + 1]

\* the first position at which sub occurs in s, 0 when it does not
str_find(s, sub) ==
    LET found == {i \in 1..(Len(s) - Len(sub) + 1) : SubSeq(s, i, i + Len(sub) - 1) = sub}
    IN  IF found = {} THEN 0 ELSE CHOOSE i \in found : \A j \in found : i <= j

\* sub in s
str_contains(s, sub) == str_find(s, sub) # 0

RECURSIVE split_from(_, _, _)
\* s.split(sep) of the text that follows the first (at - 1) characters
split_from(s, sep, at_sep) ==
    IF at_sep = 0 THEN <<s>>
    ELSE <<SubSeq(s, 1, at_sep - 1)>>
         \o split_from(SubSeq(s, at_sep + Len(sep), Len(s)), sep,
                       str_find(SubSeq(s, at_sep + Len(sep), Len(s)), sep))

\* s.split(sep) for a separator that is not empty
str_split_sep(s, sep) == split_from(s, sep, str_find(s, sep))

\* the digits of a non-negative integer with "," between groups of three
RECURSIVE group_thousands(_)
group_thousands(digits) ==
    IF Len(digits) <= 3 THEN digits
    ELSE group_thousands(SubSeq(digits, 1, Len(digits) - 3))
         \o <<",">> \o SubSeq(digits, Len(digits) - 2, Len(digits))

\* the absolute value
abs(n) == IF n < 0 THEN -n ELSE n

\* the two decimals of a number of hundredths
decimals_2(n) == <<".", Digits[((abs(n) % 100) \div 10) + 1], Digits[(abs(n) % 10) + 1]>>

\* f"{x:,.2f}"
format_comma_2f(n) ==
    (IF n < 0 THEN <<"-">> ELSE <<>>)
    \o group_thousands(int_str(abs(n) \div 100)) \o decimals_2(n)

\* f"{x:.2f}"
format_2f(n) ==
    (IF n < 0 THEN <<"-">> ELSE <<>>) \o int_str(abs(n) \div 100) \o decimals_2(n)

\* f"{x:+.2f}"
format_plus_2f(n) ==
    (IF n < 0 THEN <<"-">> ELSE <<"+">>) \o int_str(abs(n) \div 100) \o decimals_2(n)

\* f"{x:,.0f}" of a whole number
format_comma_0f(n) ==
    (IF n < 0 THEN <<"-">> ELSE <<>>) \o group_thousands(int_str(abs(n)))

IsDigit(c) == \E i \in 1..Len(Digits) : Digits[i] = c

RECURSIVE digits_value(_)
\* the number a text of digits writes
digits_value(s) ==
    IF s = <<>> THEN 0
    ELSE 10 * digits_value(SubSeq(s, 1, Len(s) - 1))
         + ((CHOOSE i \in 1..Len(Digits) : Digits[i] = s[Len(s)]) - 1)

\* the hundredths that the unsigned decimal text writes, the point being at
\* position dot (0 for a text without a point)
unsigned_hundredths(s, dot) ==
    IF dot = 0 THEN 100 * digits_value(s)
    ELSE 100 * digits_value(SubSeq(s, 1, dot - 1))
         + digits_value(SubSeq(s, dot + 1, Len(s)) \o [i \in 1..(2 - (Len(s) - dot)) |-> "0"])

\* the text is digits with at most one point, at most two digits after it,
\* and at least one digit
IsDecimal(s, dot) ==
    /\ \A i \in 1..Len(s) : i # dot => IsDigit(s[i])
    /\ Len(s) > (IF dot = 0 THEN 0 ELSE 1)
    /\ dot # 0 => Len(s) - dot <= 2

\* float(text) of an unsigned decimal text
float_unsigned(s) ==
    IF IsDecimal(s, str_find(s, <<".">>))
    THEN Ok(unsigned_hundredths(s, str_find(s, <<".">>)))
    ELSE Raise("ValueError")

\* the result with its value negated
negated(r) == IF r.exc # "none" THEN r ELSE Ok(-r.val)

\* float(text) for the decimal texts format_backtest_row writes, digits
\* with at most two decimals; a text that is not a number raises ValueError
float_of(s) ==
    IF s # <<>> /\ s[1] = "-" THEN negated(float_unsigned(Tail(s)))
    ELSE float_unsigned(s)


\* f"{color}{text}{Style.RESET_ALL}" as a field of a row
colored(color, text) == Str(color \o text \o StyleResetAll)

\* the colour of an action in format_backtest_row
backtest_action_color(action) ==
    dict_get(<< <<<<"B","U","Y">>, "GREEN">>,
                <<<<"C","O","V","E","R">>, "GREEN">>,
                <<<<"S","E","L","L">>, "RED">>,
                <<<<"S","H","O","R","T">>, "RED">>,
                <<<<"H","O","L","D">>, "WHITE">> >>,
             str_upper(action), "WHITE")

\* the summary heading in a language
summary_heading_of(language) ==
    text_of("backtest.table.summary_heading", language,
            <<"P","O","R","T","F","O","L","I","O"," ","S","U","M","M","A","R","Y">>, <<>>)

\* return_color
return_color(return_pct) == IF or_zero(return_pct) >= 0 THEN "GREEN" ELSE "RED"

\* a ratio field of the summary row: empty exactly when the input is None
ratio_field(ratio) ==
    IF ratio.tag # "None" THEN colored(Fore("YELLOW"), format_2f(or_zero(ratio)))
    ELSE Str(<<>>)

\* a mutant of drawdown_field: a drawdown of zero gives the empty field
drawdown_field_Truthy(max_drawdown) ==
    IF or_zero(max_drawdown) # 0
    THEN colored(Fore("RED"), format_2f(abs(or_zero(max_drawdown))) \o <<"%">>)
    ELSE Str(<<>>)

\* the max-drawdown field of the summary row
drawdown_field(max_drawdown) ==
    IF max_drawdown.tag # "None"
    THEN colored(Fore("RED"), format_2f(abs(or_zero(max_drawdown))) \o <<"%">>)
    ELSE Str(<<>>)

\* the row format_backtest_row returns when is_summary
summary_row(a, language) ==
    <<Str(a.date),
      colored(Fore("WHITE") \o StyleBright, summary_heading_of(language)),
      Str(<<>>), Str(<<>>), Str(<<>>), Str(<<>>), Str(<<>>),
      colored(Fore("YELLOW"), <<"$">> \o format_comma_2f(or_zero(a.total_position_value))),
      colored(Fore("CYAN"), <<"$">> \o format_comma_2f(or_zero(a.cash_balance))),
      colored(Fore("WHITE"), <<"$">> \o format_comma_2f(or_zero(a.total_value))),
      colored(Fore(return_color(a.return_pct)),
              format_plus_2f(or_zero(a.return_pct)) \o <<"%">>),
      ratio_field(a.sharpe_ratio),
      ratio_field(a.sortino_ratio),
      drawdown_field(a.max_drawdown)>>

\* the row format_backtest_row returns for a trade
trade_row(a, language, action_color_name) ==
    <<Str(a.date),
      colored(Fore("CYAN"), a.ticker),
      colored(Fore(action_color_name), translate_action(str_upper(a.action), language)),
      colored(Fore(action_color_name), format_comma_0f(a.quantity)),
      colored(Fore("WHITE"), <<"$">> \o format_comma_2f(a.price)),
      colored(Fore("GREEN"), format_comma_0f(a.long_shares)),
      colored(Fore("RED"), format_comma_0f(a.short_shares)),
      colored(Fore("YELLOW"), <<"$">> \o format_comma_2f(a.position_value)),
      colored(Fore("GREEN"), int_str(a.bullish_count)),
      colored(Fore("RED"), int_str(a.bearish_count)),
      colored(Fore("BLUE"), int_str(a.neutral_count))>>

\* format_backtest_row(**a)
format_backtest_row(a) ==
    IF a.is_summary THEN summary_row(a, language_of(a.language))
    ELSE trade_row(a, language_of(a.language), backtest_action_color(a.action))


\* the characters of a date in the order of their code points
DateChars == <<"-", "0", "1", "2", "3", "4", "5", "6", "7", "8", "9">>

\* ord(c) of a character of a date, up to the order
chr_ord(c) == CHOOSE i \in 1..Len(DateChars) : DateChars[i] = c

\* s < t for two str: the order of Python's str comparison
str_less(s, t) ==
    \E i \in 1..(Len(t)) :
        /\ \A j \in 1..(i - 1) : j <= Len(s) /\ s[j] = t[j]
        /\ \/ i = Len(s) + 1
           \/ i <= Len(s) /\ chr_ord(s[i]) < chr_ord(t[i])

\* a mutant of is_summary_row: the heading looked for is the English one
is_summary_row_English(row, summary_heading) ==
    at(row, 1).tag = "str" /\ str_contains(at(row, 1).val, summary_heading_of("EN"))

\* isinstance(row[1], str) and summary_heading in row[1]
is_summary_row(row, summary_heading) ==
    at(row, 1).tag = "str" /\ str_contains(at(row, 1).val, summary_heading)

\* summary_rows
summary_rows_of(table_rows, summary_heading) ==
    SelectSeq(table_rows, LAMBDA row : is_summary_row(row, summary_heading))

\* ticker_rows
ticker_rows_of(table_rows, summary_heading) ==
    SelectSeq(table_rows, LAMBDA row : ~is_summary_row(row, summary_heading))

\* a mutant of latest_of: the last row of the list
latest_of_Last(summary_rows) == summary_rows[Len(summary_rows)]

\* max(summary_rows, key=lambda r: r[0]): the first row whose date no other
\* row's date is greater than
latest_of(summary_rows) ==
    summary_rows[CHOOSE i \in 1..Len(summary_rows) :
                    /\ \A j \in 1..Len(summary_rows) :
                           ~str_less(at(summary_rows[i], 0).val, at(summary_rows[j], 0).val)
                    /\ \A j \in 1..(i - 1) :
                           str_less(at(summary_rows[j], 0).val, at(summary_rows[i], 0).val)]

\* latest_summary[7], the total position value
position_field(latest_summary) == at(latest_summary, 7)

\* a mutant of cash_field: the field of the total value
cash_field_Total(latest_summary) == at(latest_summary, 9)

\* latest_summary[8], the cash balance
cash_field(latest_summary) == at(latest_summary, 8)

\* latest_summary[9], the total value
total_field(latest_summary) == at(latest_summary, 9)

\* parts[1] of the parts of a split, IndexError when there is none
second_part(parts) == IF Len(parts) < 2 THEN Raise("IndexError") ELSE Ok(parts[2])

\* text.split(Style.RESET_ALL)[0].replace(",", "") of the text after "$"
before_reset(after_dollar) ==
    IF after_dollar.exc # "none" THEN after_dollar
    ELSE Ok(str_replace(str_split_sep(after_dollar.val, StyleResetAll)[1], <<",">>, <<>>))

\* field.split("$")[1].split(Style.RESET_ALL)[0].replace(",", "")
money_str(field) ==
    IF field.tag # "str" THEN Raise("AttributeError")
    ELSE before_reset(second_part(str_split_sep(field.val, <<"$">>)))

\* the exception of the first of three results that has one
first_exc(r1, r2, r3) ==
    IF r1.exc # "none" THEN r1.exc ELSE IF r2.exc # "none" THEN r2.exc ELSE r3.exc

\* a printed line; amount is a ghost: the number the line was written from
Line(kind, text, amount) == Item(kind, <<>>, [text |-> text, amount |-> amount])

\* print(f"{label}: {color}${float(text):,.2f}{Style.RESET_ALL}")
money_line(kind, label, color, amount) ==
    IF amount.exc # "none" THEN [exc |-> amount.exc, val |-> <<>>]
    ELSE Ok(<<Line(kind, label \o <<":", " ">> \o color \o <<"$">>
                         \o format_comma_2f(amount.val) \o StyleResetAll,
                   Num(amount.val))>>)

\* the line of a metric, printed when its field is not empty
metric_line(kind, label, field) ==
    IF truthy(field) THEN <<Line(kind, label \o <<":", " ">> \o field.val, None)>>
    ELSE <<>>

\* the lines of the summary block after its heading
summary_figures(position_str, cash_str, total_str, latest_summary, language) ==
    IF first_exc(position_str, cash_str, total_str) # "none"
    THEN [exc |-> first_exc(position_str, cash_str, total_str), val |-> <<>>]
    ELSE then_items(
             money_line("cash",
                        text_of("backtest.table.cash_balance", language,
                                <<"C","a","s","h"," ","B","a","l","a","n","c","e">>, <<>>),
                        Fore("CYAN"), float_of(cash_str.val)),
         then_items(
             money_line("position",
                        text_of("backtest.table.position_value", language,
                                <<"T","o","t","a","l"," ","P","o","s","i","t","i","o","n"," ",
                                  "V","a","l","u","e">>, <<>>),
                        Fore("YELLOW"), float_of(position_str.val)),
         then_items(
             money_line("total",
                        text_of("backtest.table.total_value", language,
                                <<"T","o","t","a","l"," ","V","a","l","u","e">>, <<>>),
                        Fore("WHITE"), float_of(total_str.val)),
             Ok(<<Line("return",
                       text_of("backtest.table.return", language,
                               <<"R","e","t","u","r","n">>, <<>>)
                       \o <<":", " ">> \o at(latest_summary, 10).val, None)>>
                \o metric_line("sharpe",
                               text_of("backtest.table.sharpe_ratio", language,
                                       <<"S","h","a","r","p","e"," ","R","a","t","i","o">>,
                                       <<>>),
                               at(latest_summary, 11))
                \o metric_line("sortino",
                               text_of("backtest.table.sortino_ratio", language,
                                       <<"S","o","r","t","i","n","o"," ","R","a","t","i","o">>,
                                       <<>>),
                               at(latest_summary, 12))
                \o metric_line("max_drawdown",
                               text_of("backtest.table.max_drawdown", language,
                                       <<"M","a","x"," ","D","r","a","w","d","o","w","n">>,
                                       <<>>),
                               at(latest_summary, 13))))))

\* the summary block of the latest summary row
summary_block(latest_summary, summary_heading, language) ==
    then_items(Ok(<<Line("summary_heading",
                         <<"\n">> \o Fore("WHITE") \o StyleBright \o summary_heading \o <<":">>
                         \o StyleResetAll, None)>>),
               summary_figures(money_str(position_field(latest_summary)),
                               money_str(cash_field(latest_summary)),
                               money_str(total_field(latest_summary)),
                               latest_summary, language))

\* the summary block, when there is a summary row
latest_summary_block(summary_rows, summary_heading, language) ==
    IF summary_rows = <<>> THEN Ok(<<>>)
    ELSE summary_block(latest_of(summary_rows), summary_heading, language)

\* headers of the grid
backtest_headers(language) ==
    <<text_of("backtest.table.date", language, <<"D","a","t","e">>, <<>>),
      text_of("backtest.table.ticker", language, <<"T","i","c","k","e","r">>, <<>>),
      text_of("backtest.table.action", language, <<"A","c","t","i","o","n">>, <<>>),
      text_of("backtest.table.quantity", language, <<"Q","u","a","n","t","i","t","y">>, <<>>),
      text_of("backtest.table.price", language, <<"P","r","i","c","e">>, <<>>),
      text_of("backtest.table.long_shares", language,
              <<"L","o","n","g"," ","S","h","a","r","e","s">>, <<>>),
      text_of("backtest.table.short_shares", language,
              <<"S","h","o","r","t"," ","S","h","a","r","e","s">>, <<>>),
      text_of("backtest.table.position_value_column", language,
              <<"P","o","s","i","t","i","o","n"," ","V","a","l","u","e">>, <<>>),
      text_of("backtest.table.bullish", language, <<"B","u","l","l","i","s","h">>, <<>>),
      text_of("backtest.table.bearish", language, <<"B","e","a","r","i","s","h">>, <<>>),
      text_of("backtest.table.neutral", language, <<"N","e","u","t","r","a","l">>, <<>>)>>

\* the spacing, the grid of the ticker rows and the spacing after it
grid_items(ticker_rows, language) ==
    <<Line("spacing", <<"\n", "\n">>, None),
      Item("grid", <<>>, [headers |-> backtest_headers(language), rows |-> ticker_rows]),
      Line("spacing", <<"\n", "\n", "\n", "\n">>, None)>>

\* what print_backtest_results prints once the language and the summary
\* heading are known
print_rows(table_rows, summary_heading, language) ==
    then_items(
        then_items(Ok(<<Line("clear", <<>>, None)>>),
                   latest_summary_block(summary_rows_of(table_rows, summary_heading),
                                        summary_heading, language)),
        Ok(grid_items(ticker_rows_of(table_rows, summary_heading), language)))

\* print_backtest_results(table_rows, language)
print_backtest_results(table_rows, language_arg) ==
    print_rows(table_rows, summary_heading_of(language_of(language_arg)),
               language_of(language_arg))


(***************************************************************************)
(* Inputs of format_backtest_row and print_backtest_results, and their     *)
(* calls.  The rows print_backtest_results is given are rows that          *)
(* format_backtest_row built, and one row whose second field is no str.    *)
(***************************************************************************)
\* most rows of table_rows
MaxRows == 3

FirstDay == <<"2","0","2","4","-","0","1","-","0","2">>

NinthDay == <<"2","0","2","4","-","0","1","-","9">>

TenthDay == <<"2","0","2","4","-","0","1","-","1","0">>

\* the arguments of format_backtest_row left at their defaults
DefaultRowArgs ==
    [date |-> FirstDay, ticker |-> AAPL, action |-> <<"b","u","y">>,
     quantity |-> 0, price |-> 0, long_shares |-> 0, short_shares |-> 0,
     position_value |-> 0, bullish_count |-> 0, bearish_count |-> 0, neutral_count |-> 0,
     is_summary |-> FALSE, total_value |-> None, return_pct |-> None,
     cash_balance |-> None, total_position_value |-> None, sharpe_ratio |-> None,
     sortino_ratio |-> None, max_drawdown |-> None, language |-> Member(DEFAULT_LANGUAGE)]

\* actions in several cases, and strings that are no action
BacktestActions ==
    {<<"b","u","y">>, <<"S","E","L","L">>, <<"H","o","l","d">>, <<"h","o","l","d">>,
     <<"s","h","o","r","t">>, <<"C","o","v","e","r">>, <<"w","a","i","t">>, <<>>}

\* calls that build the row of a trade
TradeCalls ==
    {[DefaultRowArgs EXCEPT !.ticker = c[1], !.action = c[2], !.quantity = c[3],
                            !.price = c[4], !.position_value = c[3] * c[4],
                            !.long_shares = c[3], !.bullish_count = 2,
                            !.language = c[5]] :
        c \in {AAPL, MSFT} \X BacktestActions \X {0, 1500} \X {12345, 100000} \X LanguageArgs}

\* amounts of money in hundredths: absent, zero, below 1,000.00, and from
\* 1,000.00 on
Amounts == {None, Num(0), Num(5), Num(99999), Num(100000), Num(123456789)}

\* calls that build a summary row, for every three amounts
AmountCalls ==
    {[DefaultRowArgs EXCEPT !.is_summary = TRUE, !.ticker = <<>>, !.action = <<>>,
                            !.total_position_value = c[1], !.cash_balance = c[2],
                            !.total_value = c[3], !.return_pct = Num(1234),
                            !.language = Member("EN")] :
        c \in Amounts \X Amounts \X Amounts}

\* a ratio or a percentage: absent, zero, positive, negative
Metrics == {None, Num(0), Num(150), Num(-50)}

\* calls that build a summary row, for every three metrics
MetricCalls ==
    {[DefaultRowArgs EXCEPT !.is_summary = TRUE, !.ticker = <<>>, !.action = <<>>,
                            !.sharpe_ratio = c[1], !.sortino_ratio = c[2],
                            !.max_drawdown = c[3], !.return_pct = c[4],
                            !.cash_balance = Num(100000), !.total_value = Num(100000),
                            !.language = Member("ZH")] :
        c \in Metrics \X Metrics \X Metrics \X {None, Num(0), Num(-250)}}

RowCalls == TradeCalls \cup AmountCalls \cup MetricCalls

\* a row of table_rows and where it came from: a call of
\* format_backtest_row, or a row written by hand
Built(a) == [tag |-> "call", a |-> a]

Raw(row) == [tag |-> "raw", row |-> row]

row_of(source) == IF source.tag = "call" THEN format_backtest_row(source.a) ELSE source.row

\* a summary row for a day, in a language, with its figures
SummaryCall(date, language, cash, position, total, sharpe) ==
    [DefaultRowArgs EXCEPT !.is_summary = TRUE, !.ticker = <<>>, !.action = <<>>,
                           !.date = date, !.language = language,
                           !.cash_balance = cash, !.total_position_value = position,
                           !.total_value = total, !.sharpe_ratio = sharpe,
                           !.return_pct = Num(-250)]

\* the rows a list of table_rows is drawn from: summary rows of three days,
\* two of them of the same day, built in each language (the one built in
\* both languages has the heading of each, and the day whose date is the
\* greatest str though not the latest day); the row of a trade; and a row
\* whose second field is not a str
RowPool ==
    {Built(SummaryCall(FirstDay, Member("EN"), Num(100000), Num(5), Num(100005), Num(150))),
     Built(SummaryCall(TenthDay, Member("EN"), Num(99999), Num(0), Num(99999), None)),
     Built(SummaryCall(TenthDay, Member("EN"), Num(123456789), Num(100000), Num(123556789),
                       Num(0))),
     Built(SummaryCall(FirstDay, Member("ZH"), Num(5), Num(5), Num(10), Num(-50))),
     Built(SummaryCall(NinthDay, Member("BOTH"), Num(0), Num(99999), Num(99999), None)),
     Built([DefaultRowArgs EXCEPT !.quantity = 1500, !.price = 12345]),
     Raw(<<Str(TenthDay), None, Str(<<>>), Str(<<>>), Str(<<>>), Str(<<>>), Str(<<>>),
           Str(<<>>), Str(<<>>), Str(<<>>), Str(<<>>)>>)}

\* lists of at most MaxRows different rows of the pool, in any order
RowLists ==
    UNION {{l \in [1..k -> RowPool] : \A i, j \in 1..k : i # j => l[i] # l[j]} :
              k \in 0..MaxRows}

\* the calls of print_backtest_results: <<where the rows came from, language>>
BacktestPrints ==
    (RowLists \X Members)
    \cup ({<<Built(a)>> : a \in AmountCalls} \X {Member("EN")})
    \cup ({<<Built(a)>> : a \in MetricCalls} \X {Member("ZH"), Str(<<"z","h">>)})

Call_format_backtest_row ==
    \E a \in RowCalls :
        /\ Idle
        /\ op' = "format_backtest_row"
        /\ args' = a
        /\ ret' = Ok(format_backtest_row(a))

Call_print_backtest_results ==
    \E call \in BacktestPrints :
        /\ Idle
        /\ op' = "print_backtest_results"
        /\ args' = [sources |-> call[1],
                    table_rows |-> [i \in 1..Len(call[1]) |-> row_of(call[1][i])],
                    language |-> call[2]]
        /\ ret' = print_backtest_results([i \in 1..Len(call[1]) |-> row_of(call[1][i])],
                                         call[2])

NextBacktest ==
    \/ Call_format_backtest_row
    \/ Call_print_backtest_results
    \/ Return

SpecBacktest == Init /\ [][NextBacktest]_vars


(***************************************************************************)
(* Claims about format_backtest_row and print_backtest_results.            *)
(***************************************************************************)

Formatted == op = "format_backtest_row"

PrintedBacktest == op = "print_backtest_results"

\* the colour the rule gives an action: positive for BUY and COVER, negative
\* for SELL and SHORT, neutral for HOLD, the default for anything else
RuleColor(action) ==
    CASE str_upper(action) \in {<<"B","U","Y">>, <<"C","O","V","E","R">>} -> "GREEN"
      [] str_upper(action) \in {<<"S","E","L","L">>, <<"S","H","O","R","T">>} -> "RED"
      [] str_upper(action) = <<"H","O","L","D">> -> "YELLOW"
      [] OTHER -> "WHITE"

\* C11 (as the specification states it): format_backtest_row colours the
\* action and the quantity of a trade by the same rule as the other
\* formatting sites: BUY and COVER positive, SELL and SHORT negative, HOLD
\* neutral (not the default colour), anything else the default, the action
\* compared without regard to case.
C11_Original ==
    (Formatted /\ ~args.is_summary) =>
        /\ at(ret.val, 2) = colored(Fore(RuleColor(args.action)),
                                    translate_action(args.action, language_of(args.language)))
        /\ at(ret.val, 3) = colored(Fore(RuleColor(args.action)),
                                    format_comma_0f(args.quantity))


\* the summary heading of the language a call was given
HeadingOf(language_arg) == summary_heading_of(language_of(language_arg))

\* text occurs in the second field of the row
SecondFieldHas(row, text) ==
    /\ at(row, 1).tag = "str"
    /\ \E n \in 0..Len(at(row, 1).val) :
           /\ n + Len(text) <= Len(at(row, 1).val)
           /\ SubSeq(at(row, 1).val, n + 1, n + Len(text)) = text

\* the rows of the printed grid
GridRows == ret.val[CHOOSE n \in ItemsOf("grid") : TRUE].body.rows

\* the rows given whose second field does not have the heading, in the order given
RowsWithout(rows, heading) == SelectSeq(rows, LAMBDA row : ~SecondFieldHas(row, heading))

\* the source of a row given is a call of format_backtest_row in summary mode
BuiltSummary(source) == source.tag = "call" /\ source.a.is_summary

\* the source of a row given is a call of format_backtest_row for a trade
BuiltTrade(source) == source.tag = "call" /\ ~source.a.is_summary

\* C12: print_backtest_results takes a row for a summary row exactly when its
\* second field is a text that contains the summary heading of the print
\* language: the grid holds exactly the other rows, in the order given.  A
\* row format_backtest_row built in summary mode in a language has the
\* heading of that language and is no row of the grid when printed in that
\* language; the row of a trade has no heading of any language and is a row
\* of the grid.
C12_Classification ==
    /\ PrintedBacktest =>
           /\ ret.exc = "none"
           /\ Cardinality(ItemsOf("grid")) = 1
           /\ GridRows = RowsWithout(args.table_rows, HeadingOf(args.language))
           /\ \A i \in 1..Len(args.sources) :
                  /\ (/\ BuiltSummary(args.sources[i])
                      /\ language_of(args.sources[i].a.language) = language_of(args.language))
                         => \A n \in 1..Len(GridRows) : GridRows[n] # args.table_rows[i]
                  /\ BuiltTrade(args.sources[i])
                         => \E n \in 1..Len(GridRows) : GridRows[n] = args.table_rows[i]
    /\ Formatted =>
           IF args.is_summary THEN SecondFieldHas(ret.val, HeadingOf(args.language))
           ELSE \A l \in Languages : ~SecondFieldHas(ret.val, summary_heading_of(l))

\* a list of three rows printed in Chinese: a summary row built in Chinese,
\* which is left out of the grid, the row of a trade and a row whose second
\* field is no text, which are its rows
C12_Witness ==
    /\ PrintedBacktest
    /\ language_of(args.language) = "ZH"
    /\ Len(args.sources) = 3
    /\ BuiltSummary(args.sources[1])
    /\ language_of(args.sources[1].a.language) = "ZH"
    /\ BuiltTrade(args.sources[2])
    /\ args.sources[3].tag = "raw"
    /\ GridRows = <<args.table_rows[2], args.table_rows[3]>>
    /\ ItemsOf("summary_heading") # {}


\* the rows given whose second field has the heading: the summary rows
RowsWith(rows, heading) == SelectSeq(rows, LAMBDA row : SecondFieldHas(row, heading))

\* the text of the one printed line of a kind
TextOf(kind) == ret.val[CHOOSE n \in ItemsOf(kind) : TRUE].body.text

\* text ends with suffix
Ends(text, suffix) ==
    /\ Len(suffix) <= Len(text)
    /\ SubSeq(text, Len(text) - Len(suffix) + 1, Len(text)) = suffix

\* s < t in the order of the code points, character by character
DateBefore(s, t) ==
    \/ Len(s) < Len(t) /\ SubSeq(t, 1, Len(s)) = s
    \/ \E i \in 1..Len(s) :
           /\ i <= Len(t)
           /\ SubSeq(s, 1, i - 1) = SubSeq(t, 1, i - 1)
           /\ chr_ord(s[i]) < chr_ord(t[i])

\* a field of a row from its "$" on: the amount as the row shows it
FromDollar(field) ==
    SubSeq(field.val, CHOOSE n \in 1..Len(field.val) : field.val[n] = "$", Len(field.val))

\* a metric's line is printed when the row has the metric, and ends with it
ShowsMetric(kind, field) ==
    /\ (ItemsOf(kind) # {}) = (field.val # <<>>)
    /\ ItemsOf(kind) # {} => Ends(TextOf(kind), field.val)

\* the printed summary block shows the figures of this summary row
ShowsFiguresOf(row) ==
    /\ \A kind \in {"summary_heading", "cash", "position", "total", "return"} :
           Cardinality(ItemsOf(kind)) = 1
    /\ Ends(TextOf("cash"), FromDollar(at(row, 8)))
    /\ Ends(TextOf("position"), FromDollar(at(row, 7)))
    /\ Ends(TextOf("total"), FromDollar(at(row, 9)))
    /\ Ends(TextOf("return"), at(row, 10).val)
    /\ ShowsMetric("sharpe", at(row, 11))
    /\ ShowsMetric("sortino", at(row, 12))
    /\ ShowsMetric("max_drawdown", at(row, 13))

\* the kinds of the lines of the summary block
SummaryKinds ==
    {"summary_heading", "cash", "position", "total", "return", "sharpe", "sortino",
     "max_drawdown"}

\* the date of a row
DateOf(row) == at(row, 0).val

\* row k of the summary rows has the greatest date, and is the first that has
Latest(summary_rows, k) ==
    /\ \A j \in 1..Len(summary_rows) :
           ~DateBefore(DateOf(summary_rows[k]), DateOf(summary_rows[j]))
    /\ \A j \in 1..(k - 1) : DateBefore(DateOf(summary_rows[j]), DateOf(summary_rows[k]))

\* the summary block that goes with the summary rows: none without a summary
\* row, else the figures of the latest
BlockOf(summary_rows) ==
    IF summary_rows = <<>> THEN \A kind \in SummaryKinds : ItemsOf(kind) = {}
    ELSE \E k \in 1..Len(summary_rows) :
             Latest(summary_rows, k) /\ ShowsFiguresOf(summary_rows[k])

\* C13: with a summary row among the rows, print_backtest_results prints the
\* figures of the summary row whose date is the greatest str among the
\* summary rows (the first of them, when several have it), wherever it is
\* in the list; without a summary row it prints no line of the summary
\* block.  The grid is printed either way.
C13_LatestSummary ==
    PrintedBacktest =>
        /\ ret.exc = "none"
        /\ Cardinality(ItemsOf("grid")) = 1
        /\ BlockOf(RowsWith(args.table_rows, HeadingOf(args.language)))

\* three summary rows printed in English, of 2024-01-10, 2024-01-9 and
\* 2024-01-02 in this order: the figures printed are those of the second,
\* whose date is the greatest str, though 2024-01-10 is the later day
C13_Witness ==
    /\ PrintedBacktest
    /\ language_of(args.language) = "EN"
    /\ Len(RowsWith(args.table_rows, HeadingOf(args.language))) = 3
    /\ DateOf(args.table_rows[1]) = TenthDay
    /\ DateOf(args.table_rows[2]) = NinthDay
    /\ DateOf(args.table_rows[3]) = FirstDay
    /\ ShowsFiguresOf(args.table_rows[2])
    /\ ~ShowsFiguresOf(args.table_rows[1])

\* a list without a summary row: the grid is printed, the summary block is not
C13_NoSummary ==
    /\ PrintedBacktest
    /\ Len(args.table_rows) = 2
    /\ RowsWith(args.table_rows, HeadingOf(args.language)) = <<>>
    /\ GridRows = args.table_rows
    /\ \A kind \in SummaryKinds : ItemsOf(kind) = {}


\* the amount the one printed line of a kind was written from
AmountOf(kind) == ret.val[CHOOSE n \in ItemsOf(kind) : TRUE].body.amount

\* the amount an argument of format_backtest_row stands for: None counts as 0
Given(amount) == IF amount.tag = "None" THEN Num(0) ELSE amount

\* the one row printed was built in summary mode from amounts
OneSummaryRow ==
    /\ PrintedBacktest
    /\ Len(args.sources) = 1
    /\ BuiltSummary(args.sources[1])
    /\ language_of(args.sources[1].a.language) = language_of(args.language)

\* C14: the amounts of a summary row survive the way from format_backtest_row
\* to print_backtest_results.  The cash balance, the total position value and
\* the total value that format_backtest_row wrote into fields 8, 7 and 9,
\* with two decimals and thousands separators, are read back by
\* print_backtest_results (the text between "$" and the reset, separators
\* removed) as exactly the amounts given, each from its own field, and are
\* printed in the same form as the row shows them.
C14_CurrencyRoundTrip ==
    OneSummaryRow =>
        /\ ret.exc = "none"
        /\ \A kind \in {"cash", "position", "total"} : Cardinality(ItemsOf(kind)) = 1
        /\ AmountOf("cash") = Given(args.sources[1].a.cash_balance)
        /\ AmountOf("position") = Given(args.sources[1].a.total_position_value)
        /\ AmountOf("total") = Given(args.sources[1].a.total_value)
        /\ Ends(TextOf("cash"), FromDollar(at(args.table_rows[1], 8)))
        /\ Ends(TextOf("position"), FromDollar(at(args.table_rows[1], 7)))
        /\ Ends(TextOf("total"), FromDollar(at(args.table_rows[1], 9)))

\* a summary row with three different amounts, one of them 1,234,567.89 with
\* its two separators, one below 1,000 and one zero, each read back from its
\* own field
C14_Witness ==
    /\ OneSummaryRow
    /\ args.sources[1].a.cash_balance = Num(123456789)
    /\ args.sources[1].a.total_position_value = Num(0)
    /\ args.sources[1].a.total_value = Num(99999)
    /\ at(args.table_rows[1], 8)
           = colored(Fore("CYAN"), <<"$","1",",","2","3","4",",","5","6","7",".","8","9">>)
    /\ AmountOf("cash") = Num(123456789)
    /\ AmountOf("position") = Num(0)
    /\ AmountOf("total") = Num(99999)


\* the lines of the metrics are those of the fields of the one row given
MetricsOfRow ==
    /\ ShowsMetric("sharpe", at(args.table_rows[1], 11))
    /\ ShowsMetric("sortino", at(args.table_rows[1], 12))
    /\ ShowsMetric("max_drawdown", at(args.table_rows[1], 13))

\* a field of a summary row is empty exactly when its argument is None
EmptyWhenAbsent(field, argument) ==
    /\ field.tag = "str"
    /\ (field.val = <<>>) = (argument.tag = "None")

\* a metric's line is printed exactly when its argument was not None
PrintedWhenGiven(kind, argument) == (ItemsOf(kind) # {}) = (argument.tag # "None")

\* C15: in a summary row of format_backtest_row the fields of the Sharpe
\* ratio, the Sortino ratio and the max drawdown are the empty string exactly
\* when the argument is None: a ratio or a drawdown of zero gives a field
\* that is not empty.  print_backtest_results prints the line of a metric
\* exactly when the field of the summary row it selected is not empty, so a
\* metric of zero is printed and a metric that is absent is not.
C15_MetricPresence ==
    /\ (Formatted /\ args.is_summary) =>
           /\ EmptyWhenAbsent(at(ret.val, 11), args.sharpe_ratio)
           /\ EmptyWhenAbsent(at(ret.val, 12), args.sortino_ratio)
           /\ EmptyWhenAbsent(at(ret.val, 13), args.max_drawdown)
    /\ OneSummaryRow =>
           /\ ret.exc = "none"
           /\ MetricsOfRow
           /\ PrintedWhenGiven("sharpe", args.sources[1].a.sharpe_ratio)
           /\ PrintedWhenGiven("sortino", args.sources[1].a.sortino_ratio)
           /\ PrintedWhenGiven("max_drawdown", args.sources[1].a.max_drawdown)

\* a summary row with a Sharpe ratio that is absent, a Sortino ratio of 1.50
\* and a max drawdown of zero: the lines of the Sortino ratio and of the
\* drawdown of 0.00% are printed, the line of the Sharpe ratio is not
C15_Witness ==
    /\ OneSummaryRow
    /\ args.sources[1].a.sharpe_ratio = None
    /\ args.sources[1].a.sortino_ratio = Num(150)
    /\ args.sources[1].a.max_drawdown = Num(0)
    /\ at(args.table_rows[1], 11) = Str(<<>>)
    /\ at(args.table_rows[1], 13) = colored(Fore("RED"), <<"0",".","0","0","%">>)
    /\ ItemsOf("sharpe") = {}
    /\ ItemsOf("sortino") # {}
    /\ Ends(TextOf("max_drawdown"), at(args.table_rows[1], 13).val)

=============================================================================
